---- MODULE Spec2Model ----
(***************************************************************************)
(* CSV -> PostgreSQL loaders of metricflow-mcp.                            *)
(*                                                                         *)
(*   copy_csv_to_postgres.main          one transaction over psycopg2      *)
(*   CSVImporter.create_table_from_csv  pandas/SQLAlchemy, one transaction *)
(*                                      per statement                      *)
(*   quote_ident and the SQL text       SqlSpec: the statements each entry *)
(*                                      point builds from its names        *)
(*   KaggleDownloader and its callers   KaggleSpec: the dataset cache,     *)
(*                                      import_uber.main, the server tool  *)
(*   two importer invocations           RaceSpec: their statements         *)
(*                                      interleaved on one database        *)
(*   the vanna demos                    DemoSpec: the table chosen for the *)
(*                                      view uber_bookings                 *)
(*                                                                         *)
(* A CSV file is a sequence of lines, a line a sequence of one-character   *)
(* strings.  The database holds the schemas and the one table the run      *)
(* targets; db is the committed state, tx the state seen inside the open   *)
(* psycopg2 transaction.                                                   *)
(***************************************************************************)
EXTENDS Naturals, Sequences, FiniteSets, TLC

VARIABLES
    scn,      \* what the operator supplies to every run: file, schema, dialect
    db,       \* committed database state
    tx,       \* database state inside the open transaction of main
    conn,     \* psycopg2 connection of main: "none" | "open" | "closed"
    kind,     \* which entry point is running: "none" | "copy" | "importer"
    pc,       \* position inside the running entry point
    args,     \* the flags of the running invocation
    headers,  \* main: [set, v], v the result of read_csv_header once set
    loc,      \* locals: row_count (main); df, table_exists, if_exists_mode (importer)
    exc,      \* pending exception ("none" when there is none)
    log,      \* statements and calls issued by the running invocation, in order
    out,      \* what the invocation reported: stdout, stderr, exit status / result
    pre,      \* committed database state when the invocation started
    prev,     \* summary of the previous finished invocation
    runs,     \* number of invocations started
    given,    \* the names an entry point is given: schema, table, header names
    sql,      \* the statements an entry point builds from them, in order
    who,      \* the entry point that built sql ("none" before)
    hub,      \* what kagglehub delivers for each dataset name
    disk,     \* the directories under download_dir and the files in them
    kpc,      \* position inside the running downloader operation or its caller
    call,     \* the running operation: its arguments and locals
    ret,      \* what the last downloader operation returned
    hist,     \* the download_dataset calls that have returned, in order
    script,   \* import_uber.main / the server tool: what it printed, how it ended
    inv,      \* two invocations of create_table_from_csv running side by side
    demo      \* the demos: the public base tables, DATA_TABLE, the runs so far

vars == <<scn, db, tx, conn, kind, pc, args, headers, loc, exc, log, out, pre, prev, runs,
          given, sql, who, hub, disk, kpc, call, ret, hist, script, inv, demo>>

Kaggle == <<hub, disk, kpc, call, ret, hist, script>>

Rest == <<inv, demo>>

\* How many invocations one behaviour holds.
MaxRuns == 2

----------------------------------------------------------------------------
(* Characters and CSV records *)

DQ == "\""
COMMA == ","
SEMI == ";"
PIPE == "|"

NullTokenDefault == <<"n", "u", "l", "l">>

RECURSIVE CsvScan(_, _, _, _, _, _, _)
\* Python's csv.reader on one line: START_FIELD ("start"), IN_FIELD ("field"),
\* IN_QUOTED_FIELD ("quoted"), QUOTE_IN_QUOTED_FIELD ("qq").
CsvScan(line, i, st, cur, acc, delimiter, quotechar) ==
    IF i > Len(line) THEN Append(acc, cur)
    ELSE LET c == line[i] IN
        CASE st = "start" ->
                IF c = quotechar THEN CsvScan(line, i + 1, "quoted", cur, acc, delimiter, quotechar)
                ELSE IF c = delimiter THEN CsvScan(line, i + 1, "start", <<>>, Append(acc, cur), delimiter, quotechar)
                ELSE CsvScan(line, i + 1, "field", Append(cur, c), acc, delimiter, quotechar)
          [] st = "field" ->
                IF c = delimiter THEN CsvScan(line, i + 1, "start", <<>>, Append(acc, cur), delimiter, quotechar)
                ELSE CsvScan(line, i + 1, "field", Append(cur, c), acc, delimiter, quotechar)
          [] st = "quoted" ->
                IF c = quotechar THEN CsvScan(line, i + 1, "qq", cur, acc, delimiter, quotechar)
                ELSE CsvScan(line, i + 1, "quoted", Append(cur, c), acc, delimiter, quotechar)
          [] OTHER ->
                IF c = quotechar THEN CsvScan(line, i + 1, "quoted", Append(cur, c), acc, delimiter, quotechar)
                ELSE IF c = delimiter THEN CsvScan(line, i + 1, "start", <<>>, Append(acc, cur), delimiter, quotechar)
                ELSE CsvScan(line, i + 1, "field", Append(cur, c), acc, delimiter, quotechar)

\* csv.reader(f, delimiter=..., quotechar=...) applied to one record; a blank
\* line is the empty list.
PyCsvRecord(line, delimiter, quotechar) ==
    IF line = <<>> THEN <<>> ELSE CsvScan(line, 1, "start", <<>>, <<>>, delimiter, quotechar)

RECURSIVE CopyScan(_, _, _, _, _, _, _, _)
\* PostgreSQL's COPY ... (FORMAT csv) field splitter: a quote character toggles
\* quoting wherever it stands, a doubled quote inside quotes is a literal one.
\* A field is its text and whether any part of it was quoted.
CopyScan(line, i, inq, cur, wasq, acc, delimiter, quote) ==
    IF i > Len(line)
    THEN [fields |-> Append(acc, [txt |-> cur, quoted |-> wasq]), open |-> inq]
    ELSE LET c == line[i] IN
        IF ~inq
        THEN IF c = delimiter
             THEN CopyScan(line, i + 1, FALSE, <<>>, FALSE,
                           Append(acc, [txt |-> cur, quoted |-> wasq]), delimiter, quote)
             ELSE IF c = quote
             THEN CopyScan(line, i + 1, TRUE, cur, TRUE, acc, delimiter, quote)
             ELSE CopyScan(line, i + 1, FALSE, Append(cur, c), wasq, acc, delimiter, quote)
        ELSE IF c = quote
             THEN IF i < Len(line) /\ line[i + 1] = quote
                  THEN CopyScan(line, i + 2, TRUE, Append(cur, c), TRUE, acc, delimiter, quote)
                  ELSE CopyScan(line, i + 1, FALSE, cur, TRUE, acc, delimiter, quote)
             ELSE CopyScan(line, i + 1, TRUE, Append(cur, c), TRUE, acc, delimiter, quote)

CopyRecord(line, delimiter, quote) == CopyScan(line, 1, FALSE, <<>>, FALSE, <<>>, delimiter, quote)

\* The texts of a COPY record, the list the header line splits into under the
\* configured delimiter and quote.
CopyFieldTexts(line, delimiter, quote) ==
    LET r == CopyRecord(line, delimiter, quote).fields
    IN  [k \in 1..Len(r) |-> r[k].txt]

----------------------------------------------------------------------------
(* Values, rows and tables *)

NULL == [null |-> TRUE, txt |-> <<>>]
Val(t) == [null |-> FALSE, txt |-> t]

Range(s) == {s[k] : k \in 1..Len(s)}

NoDup(s) == \A i, j \in 1..Len(s) : s[i] = s[j] => i = j

IndexOf(s, e) == CHOOSE k \in 1..Len(s) : s[k] = e

NoTable == [exists |-> FALSE, cols |-> <<>>, rows |-> <<>>, unique |-> FALSE]

Col(name, type) == [name |-> name, type |-> type, nullable |-> TRUE]

ColNames(t) == [k \in 1..Len(t.cols) |-> t.cols[k].name]

\* A uniqueness constraint on the table's first column: no two rows agree on
\* a non-NULL key.
UniqueOK(t, rows) ==
    ~t.unique \/ Len(t.cols) = 0 \/
    \A i, j \in 1..Len(rows) :
        (i # j /\ ~rows[i][1].null) => rows[i][1] # rows[j][1]

\* The row a statement that names the columns `names` stores for `vals`:
\* the table's columns in the table's order, NULL where the column is not named.
StoredRow(t, names, vals) ==
    [k \in 1..Len(t.cols) |->
        IF t.cols[k].name \in Range(names)
        THEN vals[IndexOf(names, t.cols[k].name)]
        ELSE NULL]

----------------------------------------------------------------------------
(* PostgreSQL, as far as the loaders drive it.  Every operator takes a       *)
(* database state d = [schemas, tbl] and answers [ok, d]: whether the        *)
(* statement succeeds and the state it leaves inside its transaction.        *)

PgCreateSchemaIfNotExists(d, schema) ==
    [ok |-> TRUE, d |-> [d EXCEPT !.schemas = @ \cup {schema}]]

\* Mutant: DROP TABLE IF EXISTS, then CREATE TABLE.
PgDropAndCreateTable(d, schema, names) ==
    IF <<>> \in Range(names) \/ schema \notin d.schemas \/ ~NoDup(names)
    THEN [ok |-> FALSE, d |-> d]
    ELSE [ok |-> TRUE,
          d |-> [d EXCEPT !.tbl = [exists |-> TRUE,
                                   cols |-> [k \in 1..Len(names) |-> Col(names[k], "TEXT")],
                                   rows |-> <<>>,
                                   unique |-> FALSE]]]

\* CREATE TABLE IF NOT EXISTS s.t (h TEXT, ...): nothing happens to a table
\* that exists; a new one has the named columns, all TEXT, and no rows.
PgCreateTableIfNotExists(d, schema, names) ==
    IF <<>> \in Range(names) \/ schema \notin d.schemas
    THEN [ok |-> FALSE, d |-> d]
    ELSE IF d.tbl.exists THEN [ok |-> TRUE, d |-> d]
    ELSE IF ~NoDup(names) THEN [ok |-> FALSE, d |-> d]
    ELSE [ok |-> TRUE,
          d |-> [d EXCEPT !.tbl = [exists |-> TRUE,
                                   cols |-> [k \in 1..Len(names) |-> Col(names[k], "TEXT")],
                                   rows |-> <<>>,
                                   unique |-> FALSE]]]

\* Mutant: the table is emptied by dropping it and creating it again from its
\* column list, which loses its constraint.
PgDropAndRecreate(d) ==
    IF d.tbl.exists
    THEN [ok |-> TRUE, d |-> [d EXCEPT !.tbl.rows = <<>>, !.tbl.unique = FALSE]]
    ELSE [ok |-> FALSE, d |-> d]

\* TRUNCATE TABLE s.t: the rows go, the definition stays.
PgTruncate(d) ==
    IF d.tbl.exists
    THEN [ok |-> TRUE, d |-> [d EXCEPT !.tbl.rows = <<>>]]
    ELSE [ok |-> FALSE, d |-> d]

\* Mutant: a quoted field equal to the NULL string is NULL as well.
CopyValueIgnoringQuotes(f, null_token) ==
    IF f.txt = null_token THEN NULL ELSE Val(f.txt)

\* One field of a COPY record as a value: an unquoted field equal to the NULL
\* string is NULL, every other field is its text.
CopyValue(f, null_token) ==
    IF ~f.quoted /\ f.txt = null_token THEN NULL ELSE Val(f.txt)

\* COPY s.t (names) FROM STDIN WITH (FORMAT csv, HEADER true, DELIMITER, QUOTE,
\* NULL): the first line is skipped, every other line must split into exactly
\* one field per named column; the rows are appended or the statement fails.
PgCopy(d, names, lines, delimiter, quote, null_token) ==
    LET t == d.tbl
        data == IF lines = <<>> THEN <<>> ELSE Tail(lines)
        recs == [k \in 1..Len(data) |-> CopyRecord(data[k], delimiter, quote)]
        wellFormed == \A k \in 1..Len(recs) :
                          ~recs[k].open /\ Len(recs[k].fields) = Len(names)
        newRows == [k \in 1..Len(recs) |->
                       StoredRow(t, names,
                                 [m \in 1..Len(names) |-> CopyValue(recs[k].fields[m], null_token)])]
        optionsOK == delimiter # quote
                     /\ delimiter \notin Range(null_token)
                     /\ quote \notin Range(null_token)
    IN  IF /\ t.exists
           /\ optionsOK
           /\ names # <<>>
           /\ <<>> \notin Range(names)
           /\ NoDup(names)
           /\ Range(names) \subseteq Range(ColNames(t))
           /\ wellFormed
           /\ UniqueOK(t, t.rows \o newRows)
        THEN [ok |-> TRUE, d |-> [d EXCEPT !.tbl.rows = @ \o newRows]]
        ELSE [ok |-> FALSE, d |-> d]

PgCount(d) ==
    IF d.tbl.exists THEN [ok |-> TRUE, n |-> Len(d.tbl.rows)] ELSE [ok |-> FALSE, n |-> 0]

----------------------------------------------------------------------------
(* The files and databases a behaviour starts from *)

L_ab == <<"a", COMMA, "b">>
L_xy == <<"x", COMMA, "y">>
L_yx == <<"y", COMMA, "x">>

File(lines) == [exists |-> TRUE, lines |-> lines]

FileMissing == [exists |-> FALSE, lines |-> <<>>]
FileEmpty == File(<<>>)
FileHeaderOnly == File(<<L_ab>>)
FilePeople == File(<<L_ab, L_xy, L_yx>>)
\* row 3 of 5 has three fields
FileBadRow == File(<<L_ab, L_xy, L_yx, <<"x", COMMA, "y", COMMA, "x">>, L_xy, L_yx>>)
FileSemi == File(<<<<"a", SEMI, "b">>, <<"x", SEMI, "y">>>>)
FilePipe == File(<<<<PIPE, "a", COMMA, "b", PIPE, COMMA, "c">>,
                   <<PIPE, "x", COMMA, "y", PIPE, COMMA, "x">>>>)
\* the word null unquoted in the first data row, quoted in the second
FileNull == File(<<L_ab, <<"n", "u", "l", "l", COMMA, "y">>,
                   <<DQ, "n", "u", "l", "l", DQ, COMMA, "x">>>>)
\* a semicolon file that is only its header
FileSemiHeader == File(<<<<"a", SEMI, "b">>>>)

Files == {FileMissing, FileEmpty, FileHeaderOnly, FilePeople, FileBadRow,
          FileSemi, FilePipe, FileNull}

\* The invocations' file with --delimiter and --quote: every file under the
\* defaults, and the files written for another dialect, and the plain one,
\* under that dialect.
Dialect(f, delimiter, quote, null_token) ==
    [file |-> f, delimiter |-> delimiter, quote |-> quote, null_token |-> null_token]

Scenarios ==
    {Dialect(f, COMMA, DQ, NullTokenDefault) : f \in Files}
    \cup {Dialect(f, SEMI, DQ, NullTokenDefault) : f \in {FileSemi, FileSemiHeader, FilePeople}}
    \cup {Dialect(f, COMMA, PIPE, NullTokenDefault) : f \in {FilePipe, FilePeople}}
    \cup {Dialect(FilePeople, COMMA, DQ, <<"x">>)}

Table(names, rows, unique) ==
    [exists |-> TRUE,
     cols |-> [k \in 1..Len(names) |-> Col(names[k], "TEXT")],
     rows |-> rows,
     unique |-> unique]

R_zz == <<Val(<<"z">>), Val(<<"z">>)>>

InitTables == {NoTable,
               Table(<<<<"a">>, <<"b">>>>, <<>>, FALSE),
               Table(<<<<"a">>, <<"b">>>>, <<>>, TRUE),
               Table(<<<<"a">>, <<"b">>>>, <<R_zz>>, FALSE),
               Table(<<<<"a">>, <<"b">>>>, <<R_zz>>, TRUE),
               Table(<<<<"b">>, <<"c">>, <<"a">>>>, <<>>, FALSE),
               Table(<<<<"a">>>>, <<<<Val(<<"z">>)>>>>, FALSE)}

\* The schema "public" always exists; a table lives in a schema that exists.
\* Another schema is missing, empty or holds the plain table.
InitDbs(schema) ==
    IF schema = "public"
    THEN {[schemas |-> {"public"}, tbl |-> t] : t \in InitTables}
    ELSE {[schemas |-> {"public"}, tbl |-> NoTable]}
         \cup {[schemas |-> {"public", schema}, tbl |-> t] :
                   t \in {NoTable, Table(<<<<"a">>, <<"b">>>>, <<R_zz>>, FALSE)}}

NoArgs == [create_table |-> FALSE, truncate |-> FALSE]
NoDf == [cols |-> <<>>, rows |-> <<>>]
NoLoc == [row_count |-> 0, df |-> NoDf, table_exists |-> FALSE, if_exists_mode |-> "unset"]
NoHeaders == [set |-> FALSE, v |-> <<>>]
NoOut == [stdout |-> <<>>, stderr |-> <<>>, exit |-> "running", ret |-> <<>>]
NoNames == [schema |-> <<>>, table |-> <<>>, headers |-> <<>>]

NoCall == [op |-> "none", caller |-> "none", dataset_name |-> <<>>, local_dataset_dir |-> <<>>,
           existing_csvs |-> <<>>, src |-> <<>>, copied |-> 0, remote |-> FALSE, exc |-> "none"]
NoRet == [op |-> "none", dataset_name |-> <<>>, status |-> "none", raised |-> FALSE,
          download_path |-> <<>>, total_files |-> 0, csv_files |-> 0, files |-> <<>>,
          csv_file_paths |-> <<>>, error |-> "none", has_files |-> FALSE,
          remote |-> FALSE, step_failed |-> FALSE]
NoScript == [caller |-> "none", i |-> 0, stdout |-> <<>>, exit |-> "none", step_failed |-> FALSE,
             csv_filename |-> <<>>, table_name |-> <<>>, target_csv |-> <<>>, imports |-> <<>>,
             loaded |-> <<>>]

\* No downloader operation has run and none is running.
KaggleIdle ==
    /\ hub = <<>>
    /\ disk = <<>>
    /\ kpc = "idle"
    /\ call = NoCall
    /\ ret = NoRet
    /\ hist = <<>>
    /\ script = NoScript

\* One invocation of the importer before it starts, and no demo run.
NoInv == [pc |-> "off", file |-> FileMissing, df |-> NoDf, table_exists |-> FALSE,
          if_exists_mode |-> "unset", loaded |-> 0, row_count |-> 0, exc |-> "none",
          ret |-> <<>>]
NoDemo == [available |-> {}, preferred |-> <<>>, runs |-> <<>>]

RestIdle ==
    /\ inv = <<NoInv, NoInv>>
    /\ demo = NoDemo

NoPrev == [kind |-> "none", ok |-> FALSE, truncate |-> FALSE, create_table |-> FALSE,
           before |-> 0, after |-> 0]

Init ==
    /\ \E sc \in Scenarios, s \in {"public", "s"} :
          /\ scn = [file |-> sc.file, schema |-> s, delimiter |-> sc.delimiter,
                    quote |-> sc.quote, null_token |-> sc.null_token]
          /\ db \in InitDbs(s)
    /\ tx = db
    /\ conn = "none"
    /\ kind = "none"
    /\ pc = "idle"
    /\ args = NoArgs
    /\ headers = NoHeaders
    /\ loc = NoLoc
    /\ exc = "none"
    /\ log = <<>>
    /\ out = NoOut
    /\ pre = db
    /\ prev = NoPrev
    /\ runs = 0
    /\ given = NoNames
    /\ sql = <<>>
    /\ who = "none"
    /\ KaggleIdle
    /\ RestIdle

----------------------------------------------------------------------------
(* copy_csv_to_postgres.py *)

Event(op, ok) == [op |-> op, ok |-> ok]

\* Mutant: next(reader, []) answers an empty header for an empty file.
read_csv_header_default(file) ==
    IF ~file.exists THEN [ok |-> FALSE, err |-> "FileNotFoundError", v |-> <<>>]
    ELSE IF file.lines = <<>> THEN [ok |-> TRUE, err |-> "none", v |-> <<>>]
    ELSE [ok |-> TRUE, err |-> "none", v |-> PyCsvRecord(file.lines[1], COMMA, DQ)]

\* read_csv_header: csv.reader(f) with its default dialect, next(reader).
read_csv_header(file) ==
    IF ~file.exists THEN [ok |-> FALSE, err |-> "FileNotFoundError", v |-> <<>>]
    ELSE IF file.lines = <<>> THEN [ok |-> FALSE, err |-> "StopIteration", v |-> <<>>]
    ELSE [ok |-> TRUE, err |-> "none", v |-> PyCsvRecord(file.lines[1], COMMA, DQ)]

\* Mutant: the connection left in autocommit mode.
AutocommitOn == TRUE

\* conn.autocommit = False: statements take effect at COMMIT only.
Autocommit == FALSE

RowsOf(d) == Len(d.tbl.rows)

\* The invocation is over: status and summary are what the caller sees.
Finish(o, ok) ==
    /\ out' = o
    /\ prev' = [kind |-> kind, ok |-> ok, truncate |-> args.truncate,
                create_table |-> args.create_table,
                before |-> RowsOf(pre), after |-> RowsOf(db)]
    /\ kind' = "none"
    /\ pc' = "idle"

Died(msg) == [out EXCEPT !.stderr = Append(@, msg), !.exit = "1"]

\* parse_args
StartCopy ==
    /\ kind = "none" /\ pc = "idle" /\ runs < MaxRuns
    /\ \E c, t \in BOOLEAN : args' = [create_table |-> c, truncate |-> t]
    /\ kind' = "copy"
    /\ pc' = "check_path"
    /\ runs' = runs + 1
    /\ pre' = db
    /\ tx' = db
    /\ conn' = "none"
    /\ headers' = NoHeaders
    /\ loc' = NoLoc
    /\ exc' = "none"
    /\ log' = <<>>
    /\ out' = NoOut
    /\ UNCHANGED <<Rest, Kaggle, given, sql, who, scn, db, prev>>

\* if not os.path.exists(csv_path): print(..., file=sys.stderr); sys.exit(1)
CheckPath ==
    /\ kind = "copy" /\ pc = "check_path"
    /\ IF scn.file.exists
       THEN pc' = "read_header" /\ UNCHANGED <<out, prev, kind>>
       ELSE Finish(Died("CSV not found"), FALSE)
    /\ UNCHANGED <<Rest, Kaggle, given, sql, who, scn, db, tx, conn, args, headers, loc, exc, log, pre, runs>>

\* Mutant: the connection is opened before the header is read.
ReadHeaderConnected ==
    /\ kind = "copy" /\ pc = "read_header"
    /\ conn' = "open"
    /\ tx' = db
    /\ LET r == read_csv_header(scn.file) IN
       IF r.ok
       THEN /\ headers' = [set |-> TRUE, v |-> r.v]
            /\ log' = log \o <<Event("read_header", TRUE), Event("connect", TRUE)>>
            /\ pc' = IF args.create_table THEN "create_schema"
                     ELSE IF args.truncate THEN "truncate" ELSE "copy"
            /\ UNCHANGED <<out, prev, kind, exc>>
       ELSE /\ headers' = headers
            /\ log' = log \o <<Event("connect", TRUE), Event("read_header", FALSE)>>
            /\ exc' = r.err
            /\ Finish(Died(r.err), FALSE)
    /\ UNCHANGED <<Rest, Kaggle, given, sql, who, scn, db, args, loc, pre, runs>>

\* headers = read_csv_header(csv_path); an exception here is not caught.
ReadHeader ==
    /\ kind = "copy" /\ pc = "read_header"
    /\ LET r == read_csv_header(scn.file) IN
       IF r.ok
       THEN /\ headers' = [set |-> TRUE, v |-> r.v]
            /\ log' = Append(log, Event("read_header", TRUE))
            /\ pc' = "connect"
            /\ UNCHANGED <<out, prev, kind, exc>>
       ELSE /\ headers' = headers
            /\ log' = Append(log, Event("read_header", FALSE))
            /\ exc' = r.err
            /\ Finish(Died(r.err), FALSE)
    /\ UNCHANGED <<Rest, Kaggle, given, sql, who, scn, db, tx, conn, args, loc, pre, runs>>

\* Mutant: the --truncate flag is ignored.
AfterCreateSkipsTruncate == "copy"

\* Mutant: TRUNCATE is sent whatever the flag says.
AfterCreateAlwaysTruncates == "truncate"

\* if args.truncate: TRUNCATE, then COPY
AfterCreate == IF args.truncate THEN "truncate" ELSE "copy"

\* if args.create_table: CREATE SCHEMA, CREATE TABLE
AfterConnect == IF args.create_table THEN "create_schema" ELSE AfterCreate

\* conn = psycopg2.connect(...); conn.autocommit = False
Connect ==
    /\ kind = "copy" /\ pc = "connect"
    /\ \E ok \in BOOLEAN :
          /\ log' = Append(log, Event("connect", ok))
          /\ IF ok
             THEN /\ conn' = "open"
                  /\ tx' = db
                  /\ pc' = AfterConnect
                  /\ UNCHANGED <<out, prev, kind, exc>>
             ELSE /\ UNCHANGED <<conn, tx>>
                  /\ exc' = "OperationalError"
                  /\ Finish(Died("OperationalError"), FALSE)
    /\ UNCHANGED <<Rest, Kaggle, given, sql, who, scn, db, args, headers, loc, pre, runs>>

\* cur.execute / cur.copy_expert of one statement inside the try block: the
\* statement fails when PostgreSQL rejects it (r.ok false) or when the session
\* breaks; a failure raises and control goes to the except clause.
Execute(op, r, next) ==
    \E env \in BOOLEAN :
        LET ok == env /\ r.ok IN
        /\ log' = Append(log, Event(op, ok))
        /\ IF ok
           THEN /\ tx' = r.d
                /\ db' = IF Autocommit THEN r.d ELSE db
                /\ pc' = next
                /\ exc' = exc
           ELSE /\ tx' = tx
                /\ db' = db
                /\ pc' = "rollback"
                /\ exc' = "DatabaseError"

\* cur.execute("CREATE SCHEMA IF NOT EXISTS ...")
CreateSchema ==
    /\ kind = "copy" /\ pc = "create_schema"
    /\ Execute("CREATE SCHEMA", PgCreateSchemaIfNotExists(tx, scn.schema), "create_table")
    /\ UNCHANGED <<Rest, Kaggle, given, sql, who, scn, conn, kind, args, headers, loc, out, pre, prev, runs>>

\* cur.execute("CREATE TABLE IF NOT EXISTS ... (h TEXT, ...)")
CreateTable ==
    /\ kind = "copy" /\ pc = "create_table"
    /\ Execute("CREATE TABLE", PgCreateTableIfNotExists(tx, scn.schema, headers.v), AfterCreate)
    /\ UNCHANGED <<Rest, Kaggle, given, sql, who, scn, conn, kind, args, headers, loc, out, pre, prev, runs>>

\* cur.execute("TRUNCATE TABLE ...")
Truncate ==
    /\ kind = "copy" /\ pc = "truncate"
    /\ Execute("TRUNCATE", PgTruncate(tx), "copy")
    /\ UNCHANGED <<Rest, Kaggle, given, sql, who, scn, conn, kind, args, headers, loc, out, pre, prev, runs>>

\* cur.copy_expert(copy_sql, f) with the header as the column list
Copy ==
    /\ kind = "copy" /\ pc = "copy"
    /\ Execute("COPY",
               PgCopy(tx, headers.v, scn.file.lines, scn.delimiter, scn.quote, scn.null_token),
               "count")
    /\ UNCHANGED <<Rest, Kaggle, given, sql, who, scn, conn, kind, args, headers, loc, out, pre, prev, runs>>

\* cur.execute("SELECT COUNT(*) ..."); row_count = ...; print("Loaded ...")
Count ==
    /\ kind = "copy" /\ pc = "count"
    /\ LET r == PgCount(tx) IN
       /\ Execute("SELECT COUNT", [ok |-> r.ok, d |-> tx], "commit")
       /\ IF pc' = "commit"
          THEN /\ loc' = [loc EXCEPT !.row_count = r.n]
               /\ out' = [out EXCEPT !.stdout = Append(@, [line |-> "Loaded", n |-> r.n])]
          ELSE UNCHANGED <<loc, out>>
    /\ UNCHANGED <<Rest, Kaggle, given, sql, who, scn, conn, kind, args, headers, pre, prev, runs>>

\* conn.commit(), still inside the try block
Commit ==
    /\ kind = "copy" /\ pc = "commit"
    /\ \E ok \in BOOLEAN :
          /\ log' = Append(log, Event("COMMIT", ok))
          /\ IF ok
             THEN db' = tx /\ pc' = "close" /\ exc' = exc
             ELSE db' = db /\ pc' = "rollback" /\ exc' = "DatabaseError"
    /\ UNCHANGED <<Rest, Kaggle, given, sql, who, scn, tx, conn, kind, args, headers, loc, out, pre, prev, runs>>

\* Mutant: conn.close() after the handler instead of in a finally clause.
AfterRollbackNoFinally(ok) == IF ok THEN "close" ELSE "exit"

\* finally: runs whether conn.rollback() returned or raised
AfterRollback(ok) == "close"

\* except Exception: conn.rollback(); raise
\* The transaction's changes are discarded whether the call returns or raises
\* (a session that cannot roll back is aborted by the server).
Rollback ==
    /\ kind = "copy" /\ pc = "rollback"
    /\ \E ok \in BOOLEAN :
          /\ log' = Append(log, Event("ROLLBACK", ok))
          /\ exc' = IF ok THEN exc ELSE "RollbackError"
          /\ pc' = AfterRollback(ok)
    /\ tx' = db
    /\ UNCHANGED <<Rest, Kaggle, given, sql, who, scn, db, conn, kind, args, headers, loc, out, pre, prev, runs>>

\* finally: conn.close()
Close ==
    /\ kind = "copy" /\ pc = "close"
    /\ conn' = "closed"
    /\ log' = Append(log, Event("close", TRUE))
    /\ tx' = db
    /\ pc' = "exit"
    /\ UNCHANGED <<Rest, Kaggle, given, sql, who, scn, db, kind, args, headers, loc, exc, out, pre, prev, runs>>

\* main returns (status 0) or the re-raised exception ends the process
\* (traceback on stderr, status 1).
Exit ==
    /\ kind = "copy" /\ pc = "exit"
    /\ IF exc = "none"
       THEN Finish([out EXCEPT !.exit = "0"], TRUE)
       ELSE Finish(Died(exc), FALSE)
    /\ UNCHANGED <<Rest, Kaggle, given, sql, who, scn, db, tx, conn, args, headers, loc, exc, log, pre, runs>>

----------------------------------------------------------------------------
(* pandas, as far as CSVImporter drives it *)

PdNaValues == {<<>>, <<"n", "u", "l", "l">>, <<"N", "A">>, <<"N", "a", "N">>}

PdValue(t) == IF t \in PdNaValues THEN NULL ELSE Val(t)

NonBlank(line) == line # <<>>

\* pd.read_csv(csv_path) with its defaults: sep ',', quotechar '"', blank lines
\* skipped, first record the header, short rows padded with NaN, a row with
\* more fields than the header a ParserError.
pd_read_csv(file) ==
    LET ls == SelectSeq(file.lines, NonBlank)
        hdr == PyCsvRecord(ls[1], COMMA, DQ)
        recs == [k \in 1..(Len(ls) - 1) |-> PyCsvRecord(ls[k + 1], COMMA, DQ)]
    IN  IF ~file.exists THEN [ok |-> FALSE, err |-> "FileNotFoundError", df |-> NoDf]
        ELSE IF ls = <<>> THEN [ok |-> FALSE, err |-> "EmptyDataError", df |-> NoDf]
        ELSE IF \E k \in 1..Len(recs) : Len(recs[k]) > Len(hdr)
        THEN [ok |-> FALSE, err |-> "ParserError", df |-> NoDf]
        ELSE [ok |-> TRUE, err |-> "none",
              df |-> [cols |-> hdr,
                      rows |-> [k \in 1..Len(recs) |->
                                   [m \in 1..Len(hdr) |->
                                       IF m <= Len(recs[k]) THEN PdValue(recs[k][m]) ELSE NULL]]]]

\* The column type to_sql gives a new table's column: an all-NaN column is a
\* float column, a column of strings TEXT.
PdColType(df, m) ==
    IF df.rows # <<>> /\ \A k \in 1..Len(df.rows) : df.rows[k][m].null
    THEN "FLOAT" ELSE "TEXT"

\* df.to_sql(name, con=engine, if_exists=mode, index=False): one transaction.
\* An existing table makes 'fail' raise, 'append' insert into it under the
\* frame's column names (no INSERT is sent for a frame without rows) and
\* 'replace' drop it first; a missing table is created from the frame.
PdToSql(d, df, mode) ==
    LET t == d.tbl
        fresh == [exists |-> TRUE,
                  cols |-> [m \in 1..Len(df.cols) |-> Col(df.cols[m], PdColType(df, m))],
                  rows |-> df.rows,
                  unique |-> FALSE]
        appended == t.rows \o [k \in 1..Len(df.rows) |-> StoredRow(t, df.cols, df.rows[k])]
    IN  IF t.exists /\ mode = "fail" THEN [ok |-> FALSE, d |-> d]
        ELSE IF t.exists /\ mode = "append"
        THEN IF df.rows = <<>> THEN [ok |-> TRUE, d |-> d]
             ELSE IF Range(df.cols) \subseteq Range(ColNames(t)) /\ UniqueOK(t, appended)
             THEN [ok |-> TRUE, d |-> [d EXCEPT !.tbl.rows = appended]]
             ELSE [ok |-> FALSE, d |-> d]
        ELSE [ok |-> TRUE, d |-> [d EXCEPT !.tbl = fresh]]

----------------------------------------------------------------------------
(* src/csv_importer.py: CSVImporter.create_table_from_csv(csv_path, table_name), *)
(* every statement in a transaction of its own on the engine.                    *)

\* Mutant: an existing table is replaced by the frame.
IfExistsModeReplace(table_exists) == IF table_exists THEN "replace" ELSE "fail"

\* if table_exists: ... if_exists_mode = 'append' else: if_exists_mode = 'fail'
IfExistsMode(table_exists) == IF table_exists THEN "append" ELSE "fail"

\* Mutant: the load is appended without the TRUNCATE.
ImpAfterHasTableNoTruncate(table_exists) == "to_sql"

\* if table_exists: TRUNCATE first; else go straight to the load
ImpAfterHasTable(table_exists) == IF table_exists THEN "truncate" ELSE "to_sql"

\* The table name is used unqualified, so the call addresses the schema
\* "public".
StartImporter ==
    /\ kind = "none" /\ pc = "idle" /\ runs < MaxRuns
    /\ scn.schema = "public"
    /\ kind' = "importer"
    /\ pc' = "read_csv"
    /\ runs' = runs + 1
    /\ pre' = db
    /\ tx' = db
    /\ conn' = "none"
    /\ args' = NoArgs
    /\ headers' = NoHeaders
    /\ loc' = NoLoc
    /\ exc' = "none"
    /\ log' = <<>>
    /\ out' = NoOut
    /\ UNCHANGED <<Rest, Kaggle, given, sql, who, scn, db, prev>>

\* Mutant: the table is emptied before the file is read.
ImpReadCsvAfterTruncate ==
    /\ kind = "importer" /\ pc = "read_csv"
    /\ LET r == pd_read_csv(scn.file) IN
       /\ log' = log \o <<Event("TRUNCATE", db.tbl.exists), Event("read_csv", r.ok)>>
       /\ db' = PgTruncate(db).d
       /\ IF r.ok
          THEN loc' = [loc EXCEPT !.df = r.df] /\ pc' = "has_table" /\ exc' = exc
          ELSE loc' = loc /\ pc' = "except" /\ exc' = r.err
    /\ UNCHANGED <<Rest, Kaggle, given, sql, who, scn, tx, conn, kind, args, headers, out, pre, prev, runs>>

\* df = pd.read_csv(csv_path)
ImpReadCsv ==
    /\ kind = "importer" /\ pc = "read_csv"
    /\ LET r == pd_read_csv(scn.file) IN
       /\ log' = Append(log, Event("read_csv", r.ok))
       /\ IF r.ok
          THEN loc' = [loc EXCEPT !.df = r.df] /\ pc' = "has_table" /\ exc' = exc
          ELSE loc' = loc /\ pc' = "except" /\ exc' = r.err
    /\ UNCHANGED <<Rest, Kaggle, given, sql, who, scn, db, tx, conn, kind, args, headers, out, pre, prev, runs>>

\* inspector = inspect(self.engine); table_exists = inspector.has_table(table_name)
ImpHasTable ==
    /\ kind = "importer" /\ pc = "has_table"
    /\ \E ok \in BOOLEAN :
          /\ log' = Append(log, Event("has_table", ok))
          /\ IF ok
             THEN /\ loc' = [loc EXCEPT !.table_exists = db.tbl.exists,
                                        !.if_exists_mode = IfExistsMode(db.tbl.exists)]
                  /\ pc' = ImpAfterHasTable(db.tbl.exists)
                  /\ exc' = exc
             ELSE loc' = loc /\ pc' = "except" /\ exc' = "DatabaseError"
    /\ UNCHANGED <<Rest, Kaggle, given, sql, who, scn, db, tx, conn, kind, args, headers, out, pre, prev, runs>>

\* One statement in its own transaction on the engine: committed when it
\* succeeds, without effect when it fails.
EngineRun(op, r, next) ==
    \E env \in BOOLEAN :
        LET ok == env /\ r.ok IN
        /\ log' = Append(log, Event(op, ok))
        /\ IF ok
           THEN db' = r.d /\ pc' = next /\ exc' = exc
           ELSE db' = db /\ pc' = "except" /\ exc' = "DatabaseError"

\* with self.engine.begin() as conn: conn.execute(text("TRUNCATE TABLE ..."))
ImpTruncate ==
    /\ kind = "importer" /\ pc = "truncate"
    /\ EngineRun("TRUNCATE", PgTruncate(db), "to_sql")
    /\ UNCHANGED <<Rest, Kaggle, given, sql, who, scn, tx, conn, kind, args, headers, loc, out, pre, prev, runs>>

\* df.to_sql(name=table_name, con=self.engine, if_exists=if_exists_mode, ...)
ImpToSql ==
    /\ kind = "importer" /\ pc = "to_sql"
    /\ EngineRun("to_sql", PdToSql(db, loc.df, loc.if_exists_mode), "count")
    /\ UNCHANGED <<Rest, Kaggle, given, sql, who, scn, tx, conn, kind, args, headers, loc, out, pre, prev, runs>>

\* with self.engine.connect() as conn: row_count = SELECT COUNT(*) ...
ImpCount ==
    /\ kind = "importer" /\ pc = "count"
    /\ LET r == PgCount(db) IN
       /\ EngineRun("SELECT COUNT", [ok |-> r.ok, d |-> db], "return")
       /\ loc' = IF pc' = "return" THEN [loc EXCEPT !.row_count = r.n] ELSE loc
    /\ UNCHANGED <<Rest, Kaggle, given, sql, who, scn, tx, conn, kind, args, headers, out, pre, prev, runs>>

\* return f"Imported {row_count} rows into table '{table_name}'"
ImpReturn ==
    /\ kind = "importer" /\ pc = "return"
    /\ Finish([out EXCEPT !.exit = "returned",
                          !.ret = <<[line |-> "Imported", n |-> loc.row_count]>>], TRUE)
    /\ UNCHANGED <<Rest, Kaggle, given, sql, who, scn, db, tx, conn, args, headers, loc, exc, log, pre, runs>>

\* Mutant: the handler answers with an error text instead of re-raising.
ImpExceptReturnsError ==
    /\ kind = "importer" /\ pc = "except"
    /\ Finish([out EXCEPT !.exit = "returned",
                          !.ret = <<[line |-> "Error importing CSV", n |-> 0]>>], FALSE)
    /\ UNCHANGED <<Rest, Kaggle, given, sql, who, scn, db, tx, conn, args, headers, loc, exc, log, pre, runs>>

\* except Exception as e: logger.error(...); raise
ImpExcept ==
    /\ kind = "importer" /\ pc = "except"
    /\ Finish([out EXCEPT !.exit = "raised", !.stderr = Append(@, exc)], FALSE)
    /\ UNCHANGED <<Rest, Kaggle, given, sql, who, scn, db, tx, conn, args, headers, loc, exc, log, pre, runs>>

Next ==
    \/ StartCopy
    \/ CheckPath
    \/ ReadHeader
    \/ Connect
    \/ CreateSchema
    \/ CreateTable
    \/ Truncate
    \/ Copy
    \/ Count
    \/ Commit
    \/ Rollback
    \/ Close
    \/ Exit
    \/ StartImporter
    \/ ImpReadCsv
    \/ ImpHasTable
    \/ ImpTruncate
    \/ ImpToSql
    \/ ImpCount
    \/ ImpReturn
    \/ ImpExcept

Spec == Init /\ [][Next]_vars

\* A started invocation is a running process: it takes its next step.
Step ==
    \/ CheckPath \/ ReadHeader \/ Connect \/ CreateSchema \/ CreateTable \/ Truncate
    \/ Copy \/ Count \/ Commit \/ Rollback \/ Close \/ Exit
    \/ ImpReadCsv \/ ImpHasTable \/ ImpTruncate \/ ImpToSql \/ ImpCount
    \/ ImpReturn \/ ImpExcept

FairSpec == Spec /\ WF_vars(Step)

----------------------------------------------------------------------------
(* The SQL text the entry points build from the names they are given.  A     *)
(* text is a sequence of one-character strings; the type word of a column    *)
(* definition is the one element "TEXT".                                     *)

\* The characters names are made of, and how long a name gets.
Alphabet == {"a", "B", DQ, "-"}
MaxIdentLen == 2

Idents == UNION {[1..n -> Alphabet] : n \in 0..MaxIdentLen}
ShortIdents == {i \in Idents : Len(i) <= 1}

RECURSIVE Doubled(_)
\* identifier.replace('"', '""')
Doubled(identifier) ==
    IF identifier = <<>> THEN <<>>
    ELSE (IF Head(identifier) = DQ THEN <<DQ, DQ>> ELSE <<Head(identifier)>>)
         \o Doubled(Tail(identifier))

\* Mutant: the identifier is wrapped in quotes as it is.
quote_ident_unescaped(identifier) == <<DQ>> \o identifier \o <<DQ>>

\* return '"' + identifier.replace('"', '""') + '"'
quote_ident(identifier) == <<DQ>> \o Doubled(identifier) \o <<DQ>>

RECURSIVE Join(_, _)
\* sep.join(parts)
Join(parts, sep) ==
    IF parts = <<>> THEN <<>>
    ELSE IF Len(parts) = 1 THEN parts[1]
    ELSE parts[1] \o sep \o Join(Tail(parts), sep)

Lower(c) ==
    CASE c = "A" -> "a" [] c = "B" -> "b" [] c = "C" -> "c"
      [] c = "S" -> "s" [] c = "V" -> "v" [] c = "U" -> "u" [] OTHER -> c

RECURSIVE LowerAll(_)
\* str.lower()
LowerAll(t) == IF t = <<>> THEN <<>> ELSE <<Lower(Head(t))>> \o LowerAll(Tail(t))

RECURSIVE Replaced(_, _, _)
\* str.replace(old, new) for a one-character old
Replaced(t, old, new) ==
    IF t = <<>> THEN <<>>
    ELSE <<IF Head(t) = old THEN new ELSE Head(t)>> \o Replaced(Tail(t), old, new)

LastIndexOf(t, c) ==
    IF c \in Range(t) THEN CHOOSE k \in 1..Len(t) : t[k] = c /\ \A m \in (k + 1)..Len(t) : t[m] # c
    ELSE 0

\* os.path.basename
Basename(path) == SubSeq(path, LastIndexOf(path, "/") + 1, Len(path))

\* os.path.splitext(p)[0]: the extension starts at the last dot that follows
\* a character other than a dot.
SplitextRoot(p) ==
    LET d == LastIndexOf(p, ".")
    IN  IF d > 1 /\ \E k \in 1..(d - 1) : p[k] # "." THEN SubSeq(p, 1, d - 1) ELSE p

\* sanitize_table_name of import_local_csv.py and import_uber.py
sanitize_table_name(filename) ==
    LowerAll(Replaced(Replaced(Replaced(Replaced(SplitextRoot(Basename(filename)),
        "-", "_"), " ", "_"), "/", "_"), ".", "_"))

\* One statement: its kind, the names interpolated into it (of, cols_of), and
\* the text they became in the table position and in the column list.
Stmt(verb, of, table, cols_of, columns) ==
    [verb |-> verb, of |-> of, table |-> table, cols_of |-> cols_of, columns |-> columns]

\* The statements of copy_csv_to_postgres.main
MainSql(schema, table, hs) ==
    LET qualified_table == quote_ident(schema) \o <<".">> \o quote_ident(table)
        column_list_sql == Join([k \in 1..Len(hs) |-> quote_ident(hs[k])], <<",", " ">>)
        cols_sql == Join([k \in 1..Len(hs) |-> quote_ident(hs[k]) \o <<" ", "TEXT">>], <<",", " ">>)
    IN  << Stmt("CREATE SCHEMA", <<schema>>, quote_ident(schema), <<>>, <<>>),
           Stmt("CREATE TABLE", <<schema, table>>, qualified_table, hs, cols_sql),
           Stmt("TRUNCATE", <<schema, table>>, qualified_table, <<>>, <<>>),
           Stmt("COPY", <<schema, table>>, qualified_table, hs, column_list_sql),
           Stmt("SELECT COUNT", <<schema, table>>, qualified_table, <<>>, <<>>) >>

\* The statements CSVImporter.create_table_from_csv writes itself (to_sql
\* builds its own): text(f"TRUNCATE TABLE {table_name};") and
\* text(f"SELECT COUNT(*) FROM {table_name}")
ImporterSql(table_name) ==
    << Stmt("TRUNCATE", <<table_name>>, table_name, <<>>, <<>>),
       Stmt("SELECT COUNT", <<table_name>>, table_name, <<>>, <<>>) >>

\* import_local_csv.main and import_uber.main: the importer's statements, then
\* text(f"SELECT COUNT(*) FROM {table_name}")
ScriptSql(table_name) ==
    Append(ImporterSql(table_name), Stmt("SELECT COUNT", <<table_name>>, table_name, <<>>, <<>>))

CsvSuffix == <<".", "c", "s", "v">>

\* The names are fixed when the entry point is called; nothing is running in
\* the loaders meanwhile.
SqlInit ==
    /\ given \in {[schema |-> s, table |-> t, headers |-> SubSeq(<<t, s>>, 1, n)] :
                     s \in ShortIdents, t \in Idents, n \in 0..2}
    /\ sql = <<>>
    /\ who = "none"
    /\ scn = [file |-> FilePeople, schema |-> "public", delimiter |-> COMMA,
              quote |-> DQ, null_token |-> NullTokenDefault]
    /\ db = [schemas |-> {"public"}, tbl |-> NoTable]
    /\ tx = db
    /\ conn = "none"
    /\ kind = "none"
    /\ pc = "idle"
    /\ args = NoArgs
    /\ headers = NoHeaders
    /\ loc = NoLoc
    /\ exc = "none"
    /\ log = <<>>
    /\ out = NoOut
    /\ pre = db
    /\ prev = NoPrev
    /\ runs = 0
    /\ KaggleIdle
    /\ RestIdle

Loader == <<scn, db, tx, conn, kind, pc, args, headers, loc, exc, log, out, pre, prev, runs>>

\* copy_csv_to_postgres.main with --schema, --table and the header it read
SqlMain ==
    /\ who = "none"
    /\ who' = "copy_csv_to_postgres.main"
    /\ sql' = MainSql(given.schema, given.table, given.headers)
    /\ UNCHANGED <<given, Loader, Kaggle, Rest>>

\* CSVImporter.create_table_from_csv(csv_path, table_name)
SqlImporter ==
    /\ who = "none"
    /\ who' = "CSVImporter.create_table_from_csv"
    /\ sql' = ImporterSql(given.table)
    /\ UNCHANGED <<given, Loader, Kaggle, Rest>>

\* import_local_csv.main: table_name = args.table_name or
\* sanitize_table_name(csv_path)
SqlImportLocal ==
    /\ who = "none"
    /\ who' = "import_local_csv.main"
    /\ \E table_name \in {given.table, sanitize_table_name(given.table \o CsvSuffix)} :
          /\ table_name = given.table => given.table # <<>>
          /\ sql' = ScriptSql(table_name)
    /\ UNCHANGED <<given, Loader, Kaggle, Rest>>

\* import_uber.main: table_name = sanitize_table_name(csv_path)
SqlImportUber ==
    /\ who = "none"
    /\ who' = "import_uber.main"
    /\ sql' = ScriptSql(sanitize_table_name(given.table \o CsvSuffix))
    /\ UNCHANGED <<given, Loader, Kaggle, Rest>>

SqlNext == SqlMain \/ SqlImporter \/ SqlImportLocal \/ SqlImportUber

SqlSpec == SqlInit /\ [][SqlNext]_vars

----------------------------------------------------------------------------
(* src/kaggle_downloader.py: KaggleDownloader, and its callers               *)
(* import_uber.main and the server tool download_kaggle_dataset.             *)
(* A path is a sequence of one-character strings after the element           *)
(* "./datasets", the download_dir every caller uses.                         *)

\* How many downloader operations one behaviour holds.
MaxCalls == 2

DOT_CSV == <<".", "c", "s", "v">>

\* Files of a dataset, by their path inside it: a.csv, B.CSV, the file r, and
\* the file r inside a directory named d.csv.
F_a == <<"a">> \o DOT_CSV
F_B == <<"B", ".", "C", "S", "V">>
F_r == <<"r">>
F_sub == <<"d">> \o DOT_CSV \o <<"/", "r">>
F_ba == <<"b", "a">> \o DOT_CSV
F_da == <<"d", "/">> \o F_a

\* What a dataset can consist of, in the order os.walk lists it.
Contents == {<<F_r>>, <<F_a, F_r>>, <<F_r, F_B, F_sub>>, <<F_ba, F_a>>, <<F_a, F_da>>}

\* Two dataset names that Kaggle knows and one that it does not.
D_od == <<"o", "/", "d">>
D_o__d == <<"o", "_", "_", "d">>
D_x == <<"x">>
DatasetNames == {D_od, D_o__d, D_x}

RECURSIVE SafeName(_)
\* dataset_name.replace('/', '__')
SafeName(dataset_name) ==
    IF dataset_name = <<>> THEN <<>>
    ELSE (IF Head(dataset_name) = "/" THEN <<"_", "_">> ELSE <<Head(dataset_name)>>)
         \o SafeName(Tail(dataset_name))

\* os.path.join(self.download_dir, safe_name)
LocalDatasetDir(safe_name) == <<"./datasets", "/">> \o safe_name

CacheDirs == {SafeName(n) : n \in DatasetNames}

EndsWith(t, suffix) ==
    Len(t) >= Len(suffix) /\ SubSeq(t, Len(t) - Len(suffix) + 1, Len(t)) = suffix

\* filename.lower().endswith('.csv')
IsCsvName(filename) == EndsWith(LowerAll(filename), DOT_CSV)

InTopDir(rel) == "/" \notin Range(rel)
InSubDir(rel) == "/" \in Range(rel)

\* os.walk(dir): the files of the directory itself, then those of its
\* subdirectories.
Walk(files) == SelectSeq(files, InTopDir) \o SelectSeq(files, InSubDir)

\* One element of the result's "files" list.
FileEntry(local_dataset_dir, rel) ==
    [name |-> Basename(rel),
     path |-> local_dataset_dir \o <<"/">> \o rel,
     relative_path |-> rel]

EntryIsCsv(f) == IsCsvName(f.name)

\* The scan of lines 39-50 and 74-85 over the directory dir of the disk d.
ScanFiles(d, dir) ==
    LET w == Walk(d[dir].files)
    IN  [k \in 1..Len(w) |-> FileEntry(LocalDatasetDir(dir), w[k])]

PathsOf(entries) == [k \in 1..Len(entries) |-> entries[k].path]

\* get_csv_files_from_dataset(dataset_path) when os.walk can read the
\* directory.
CsvFilesIn(d, dir) == PathsOf(SelectSeq(ScanFiles(d, dir), EntryIsCsv))

\* Mutant: the cache is never used.
UseCacheNever(existing_csvs) == FALSE

\* if existing_csvs:
UseCache(existing_csvs) == existing_csvs # <<>>

\* Mutant: the handler re-raises.
OnDownloadErrorRaise(e) == [raised |-> TRUE, status |-> "none", error |-> e]

\* except Exception as e: return {"dataset_name": ..., "status": "error", "error": str(e)}
OnDownloadError(e) == [raised |-> FALSE, status |-> "error", error |-> e]

\* shutil.copy2(src_path, dst_path): a file copied over itself is one file.
AddFile(files, rel) == IF rel \in Range(files) THEN files ELSE Append(files, rel)

\* The dictionary of lines 51-59 and 87-95.
SuccessResult ==
    LET dir == SafeName(call.dataset_name)
        files == ScanFiles(disk, dir)
        csv_files == SelectSeq(files, EntryIsCsv)
    IN  [NoRet EXCEPT !.op = "download_dataset",
                      !.dataset_name = call.dataset_name,
                      !.status = "success",
                      !.download_path = call.local_dataset_dir,
                      !.total_files = Len(files),
                      !.csv_files = Len(csv_files),
                      !.files = files,
                      !.csv_file_paths = PathsOf(csv_files),
                      !.has_files = TRUE,
                      !.remote = call.remote]

ErrorResult ==
    LET r == OnDownloadError(call.exc)
    IN  [NoRet EXCEPT !.op = "download_dataset",
                      !.dataset_name = call.dataset_name,
                      !.status = r.status,
                      !.raised = r.raised,
                      !.error = r.error,
                      !.remote = call.remote,
                      !.step_failed = TRUE]

\* Where control goes when download_dataset is over.
AfterDownload ==
    CASE call.caller = "import_uber.main" -> "uber_check"
      [] call.caller = "server.download_kaggle_dataset" -> "server_check"
      [] call.caller = "server.import_kaggle_csv" -> "import_check"
      [] OTHER -> "idle"

\* download_dataset returns r (or, with raised set, ends in an exception).
Return(r) ==
    /\ ret' = r
    /\ hist' = Append(hist, [dataset_name |-> r.dataset_name, status |-> r.status,
                             csv_file_paths |-> r.csv_file_paths,
                             total_files |-> r.total_files, remote |-> r.remote])
    /\ kpc' = AfterDownload
    /\ call' = NoCall

\* The disk holds no dataset directory yet; kagglehub has the two datasets.
KaggleInit ==
    /\ \E c \in Contents :
          hub = [n \in DatasetNames |->
                    CASE n = D_od -> [ok |-> TRUE, files |-> c]
                      [] n = D_o__d -> [ok |-> TRUE, files |-> <<F_B>>]
                      [] OTHER -> [ok |-> FALSE, files |-> <<>>]]
    /\ disk = [dir \in CacheDirs |-> [exists |-> FALSE, files |-> <<>>]]
    /\ kpc = "idle"
    /\ call = NoCall
    /\ ret = NoRet
    /\ hist = <<>>
    /\ script = NoScript
    /\ given = NoNames
    /\ sql = <<>>
    /\ who = "none"
    /\ scn = [file |-> FilePeople, schema |-> "public", delimiter |-> COMMA,
              quote |-> DQ, null_token |-> NullTokenDefault]
    /\ db = [schemas |-> {"public"}, tbl |-> NoTable]
    /\ tx = db
    /\ conn = "none"
    /\ kind = "none"
    /\ pc = "idle"
    /\ args = NoArgs
    /\ headers = NoHeaders
    /\ loc = NoLoc
    /\ exc = "none"
    /\ log = <<>>
    /\ out = NoOut
    /\ pre = db
    /\ prev = NoPrev
    /\ runs = 0
    /\ RestIdle

Names == <<given, sql, who>>

\* The locals of download_dataset(dataset_name) when a caller enters it.
Entered(caller, dataset_name) ==
    [NoCall EXCEPT !.op = "download_dataset", !.caller = caller, !.dataset_name = dataset_name]

Started(caller) == [NoScript EXCEPT !.caller = caller, !.exit = "running"]

\* tests/test_postgres_data_loading.py: the method called as it is
CallDownload ==
    /\ kpc = "idle" /\ Len(hist) < MaxCalls
    /\ \E n \in DatasetNames : call' = Entered("test", n)
    /\ kpc' = "cache_dir"
    /\ script' = Started("test")
    /\ UNCHANGED <<hub, disk, ret, hist, Names, Loader, Rest>>

\* import_uber.main: kd.download_dataset(dataset_name)
UberStart ==
    /\ kpc = "idle" /\ Len(hist) < MaxCalls
    /\ \E n \in DatasetNames : call' = Entered("import_uber.main", n)
    /\ kpc' = "cache_dir"
    /\ script' = Started("import_uber.main")
    /\ UNCHANGED <<hub, disk, ret, hist, Names, Loader, Rest>>

\* server.download_kaggle_dataset: kaggle_downloader.download_dataset(dataset_name)
ServerStart ==
    /\ kpc = "idle" /\ Len(hist) < MaxCalls
    /\ \E n \in DatasetNames : call' = Entered("server.download_kaggle_dataset", n)
    /\ kpc' = "cache_dir"
    /\ script' = Started("server.download_kaggle_dataset")
    /\ UNCHANGED <<hub, disk, ret, hist, Names, Loader, Rest>>

\* safe_name, local_dataset_dir, os.makedirs(..., exist_ok=True),
\* existing_csvs = self.get_csv_files_from_dataset(local_dataset_dir)
DownloadCacheDir ==
    /\ kpc = "cache_dir"
    /\ LET dir == SafeName(call.dataset_name)
           existing_csvs == CsvFilesIn(disk, dir)
       IN  /\ disk' = [disk EXCEPT ![dir].exists = TRUE]
           /\ call' = [call EXCEPT !.local_dataset_dir = LocalDatasetDir(dir),
                                   !.existing_csvs = existing_csvs]
           /\ kpc' = IF UseCache(existing_csvs) THEN "cached" ELSE "download"
    /\ UNCHANGED <<hub, ret, hist, script, Names, Loader, Rest>>

\* the cached branch: scan the directory, return the dictionary
DownloadCached ==
    /\ kpc = "cached"
    /\ Return(SuccessResult)
    /\ UNCHANGED <<hub, disk, script, Names, Loader, Rest>>

\* path = kagglehub.dataset_download(dataset_name): fails for a name Kaggle
\* does not know and whenever the network does
DownloadRemote ==
    /\ kpc = "download"
    /\ \E env \in BOOLEAN :
          IF env /\ hub[call.dataset_name].ok
          THEN /\ call' = [call EXCEPT !.src = hub[call.dataset_name].files, !.remote = TRUE]
               /\ kpc' = "copy"
          ELSE /\ call' = [call EXCEPT !.remote = TRUE, !.exc = "dataset_download failed"]
               /\ kpc' = "except"
    /\ UNCHANGED <<hub, disk, ret, hist, script, Names, Loader, Rest>>

\* one turn of the copy loop: os.makedirs, shutil.copy2
DownloadCopy ==
    /\ kpc = "copy"
    /\ IF call.copied = Len(call.src)
       THEN kpc' = "scan" /\ UNCHANGED <<call, disk>>
       ELSE \E ok \in BOOLEAN :
               IF ok
               THEN /\ disk' = [disk EXCEPT ![SafeName(call.dataset_name)].files =
                                                AddFile(@, call.src[call.copied + 1])]
                    /\ call' = [call EXCEPT !.copied = @ + 1]
                    /\ kpc' = "copy"
               ELSE /\ disk' = disk
                    /\ call' = [call EXCEPT !.exc = "OSError"]
                    /\ kpc' = "except"
    /\ UNCHANGED <<hub, ret, hist, script, Names, Loader, Rest>>

\* scan the cache directory, return the dictionary
DownloadScan ==
    /\ kpc = "scan"
    /\ Return(SuccessResult)
    /\ UNCHANGED <<hub, disk, script, Names, Loader, Rest>>

\* except Exception as e: logger.error(...); return {... "status": "error" ...}
DownloadExcept ==
    /\ kpc = "except"
    /\ Return(ErrorResult)
    /\ UNCHANGED <<hub, disk, script, Names, Loader, Rest>>

Printed(text) == [script EXCEPT !.stdout = Append(@, text)]

\* What the tables loaded so far hold once create_table_from_csv(csv_path,
\* table_name) has returned: the table is created from the file, or truncated
\* and loaded from it, so it holds the rows of csv_path and of no other file.
TableLoaded(loaded, table_name, csv_path) ==
    LET Other(e) == e.table_name # table_name
    IN  Append(SelectSeq(loaded, Other), [table_name |-> table_name, rows_of |-> csv_path])

\* One call of the importer and its outcome, as the caller's record of it.
Imported(csv_path, table_name, ok) ==
    [script EXCEPT !.imports = Append(@, [csv_path |-> csv_path, table_name |-> table_name,
                                          ok |-> ok]),
                   !.loaded = IF ok THEN TableLoaded(@, table_name, csv_path) ELSE @,
                   !.step_failed = @ \/ ~ok]

\* import_uber.main, lines 38-46: raise on a status other than success, stop
\* when there is no CSV, else start the loop
UberCheck ==
    /\ kpc = "uber_check"
    /\ IF ret.raised \/ ret.status # "success"
       THEN script' = [script EXCEPT !.exit = "raised"] /\ kpc' = "idle"
       ELSE IF ret.csv_file_paths = <<>>
       THEN script' = [Printed("No CSV files found") EXCEPT !.exit = "0"] /\ kpc' = "idle"
       ELSE script' = [Printed("Found CSV files") EXCEPT !.i = 1] /\ kpc' = "uber_import"
    /\ UNCHANGED <<hub, disk, call, ret, hist, Names, Loader, Rest>>

\* msg = importer.create_table_from_csv(csv_path, table_name); print(msg):
\* the import returns its message or raises, and nothing here catches that
UberImport ==
    /\ kpc = "uber_import"
    /\ \E ok \in BOOLEAN :
          LET csv_path == ret.csv_file_paths[script.i]
              tried == Imported(csv_path, sanitize_table_name(csv_path), ok)
          IN  IF ok
              THEN script' = [tried EXCEPT !.stdout = Append(@, "Imported")] /\ kpc' = "uber_count"
              ELSE script' = [tried EXCEPT !.exit = "raised"] /\ kpc' = "idle"
    /\ UNCHANGED <<hub, disk, call, ret, hist, Names, Loader, Rest>>

\* try: SELECT COUNT(*) ...; print("Row count ...")
\* except Exception as e: print("Failed to count rows ...")
\* created_tables.append(table_name), next csv_path
UberCount ==
    /\ kpc = "uber_count"
    /\ \E ok \in BOOLEAN :
          script' = [(IF ok THEN Printed("Row count") ELSE Printed("Failed to count rows"))
                        EXCEPT !.i = @ + 1,
                               !.step_failed = @ \/ ~ok]
    /\ kpc' = IF script.i < Len(ret.csv_file_paths) THEN "uber_import" ELSE "uber_done"
    /\ UNCHANGED <<hub, disk, call, ret, hist, Names, Loader, Rest>>

\* the DATA_TABLE suggestion; main returns
UberDone ==
    /\ kpc = "uber_done"
    /\ script' = [Printed("DATA_TABLE") EXCEPT !.exit = "0"]
    /\ kpc' = "idle"
    /\ UNCHANGED <<hub, disk, call, ret, hist, Names, Loader, Rest>>

\* server.download_kaggle_dataset: an error text for status "error" (and for
\* an exception), the summary otherwise
ServerCheck ==
    /\ kpc = "server_check"
    /\ script' = [(IF ret.raised THEN Printed("Error downloading Kaggle dataset")
                   ELSE IF ret.status = "error" THEN Printed("Error downloading dataset")
                   ELSE Printed("Successfully downloaded dataset"))
                     EXCEPT !.exit = "returned"]
    /\ kpc' = "idle"
    /\ UNCHANGED <<hub, disk, call, ret, hist, Names, Loader, Rest>>

\* The csv_filename arguments of import_kaggle_csv: names of files of the
\* datasets and a name no dataset has.
CsvFilenames == {F_a, F_ba, F_B, <<"z">> \o DOT_CSV}

\* The table_name arguments: None (written <<>>) or a name.
TableNameArgs == {<<>>, <<"t">>}

\* sub in text, for two strings
Contains(text, sub) ==
    \E i \in 1..(Len(text) - Len(sub) + 1) : SubSeq(text, i, i + Len(sub) - 1) = sub

\* if csv_filename in csv_path or csv_filename == os.path.basename(csv_path)
MatchesCsv(csv_filename, csv_path) ==
    Contains(csv_path, csv_filename) \/ csv_filename = Basename(csv_path)

\* The loop of lines 192-197: the first path that matches, None (written
\* <<>>) when none does.
TargetCsv(csv_files, csv_filename) ==
    LET ks == {k \in 1..Len(csv_files) : MatchesCsv(csv_filename, csv_files[k])}
    IN  IF ks = {} THEN <<>>
        ELSE csv_files[CHOOSE k \in ks : \A j \in ks : k <= j]

\* os.path.splitext(csv_filename)[0].replace('-', '_').replace(' ', '_')
DefaultTableName(csv_filename) ==
    Replaced(Replaced(SplitextRoot(csv_filename), "-", "_"), " ", "_")

\* return f"Error ...": the tool's answer for a failure is a normal return.
ToolFailed(text) == [Printed(text) EXCEPT !.exit = "returned"]

\* server.import_kaggle_csv(dataset_name, csv_filename, table_name):
\* download_result = kaggle_downloader.download_dataset(dataset_name)
ImportStart ==
    /\ kpc = "idle" /\ Len(hist) < MaxCalls
    /\ \E n \in DatasetNames : call' = Entered("server.import_kaggle_csv", n)
    /\ \E f \in CsvFilenames, t \in TableNameArgs :
          script' = [Started("server.import_kaggle_csv") EXCEPT !.csv_filename = f,
                                                                !.table_name = t]
    /\ kpc' = "cache_dir"
    /\ UNCHANGED <<hub, disk, ret, hist, Names, Loader, Rest>>

\* lines 187-205: the error text for status "error", the search for the
\* file, the text for no match, the default table name
ImportCheck ==
    /\ kpc = "import_check"
    /\ LET target_csv == TargetCsv(ret.csv_file_paths, script.csv_filename) IN
       IF ret.raised
       THEN script' = ToolFailed("Error importing Kaggle CSV") /\ kpc' = "idle"
       ELSE IF ret.status = "error"
       THEN script' = ToolFailed("Error downloading dataset") /\ kpc' = "idle"
       ELSE IF target_csv = <<>>
       THEN script' = ToolFailed("CSV file not found") /\ kpc' = "idle"
       ELSE /\ script' = [script EXCEPT !.target_csv = target_csv,
                                         !.table_name = IF @ = <<>>
                                                        THEN DefaultTableName(script.csv_filename)
                                                        ELSE @]
            /\ kpc' = "import_load"
    /\ UNCHANGED <<hub, disk, call, ret, hist, Names, Loader, Rest>>

\* import_result = csv_importer.create_table_from_csv(target_csv, table_name):
\* its message goes into the success text, its exception into the error text
\* of lines 212-213
ImportLoad ==
    /\ kpc = "import_load"
    /\ \E ok \in BOOLEAN :
          LET tried == Imported(script.target_csv, script.table_name, ok)
          IN  script' = IF ok
                        THEN [tried EXCEPT !.stdout = Append(@, "Successfully imported"),
                                           !.exit = "returned"]
                        ELSE [ToolFailed("Error importing Kaggle CSV")
                                 EXCEPT !.imports = tried.imports, !.step_failed = TRUE]
    /\ kpc' = "idle"
    /\ UNCHANGED <<hub, disk, call, ret, hist, Names, Loader, Rest>>

\* The "datasets" list of list_downloaded_datasets.
DatasetList ==
    LET dirs == {dir \in CacheDirs : disk[dir].exists}
    IN  {[name |-> dir, path |-> LocalDatasetDir(dir), file_count |-> Len(disk[dir].files)] :
            dir \in dirs}

\* list_downloaded_datasets(): the list, or [] when os.listdir raises
ListDownloaded ==
    /\ kpc = "idle" /\ Len(hist) < MaxCalls
    /\ \E ok \in BOOLEAN :
          ret' = [NoRet EXCEPT !.op = "list_downloaded_datasets",
                               !.status = "returned",
                               !.files = IF ok THEN DatasetList ELSE {},
                               !.step_failed = ~ok]
    /\ hist' = Append(hist, [dataset_name |-> <<>>, status |-> "returned",
                             csv_file_paths |-> <<>>, total_files |-> 0, remote |-> FALSE])
    /\ UNCHANGED <<hub, disk, kpc, call, script, Names, Loader, Rest>>

\* get_csv_files_from_dataset(dataset_path): the paths, or [] when the walk
\* cannot read the directory
GetCsvFiles ==
    /\ kpc = "idle" /\ Len(hist) < MaxCalls
    /\ \E dir \in CacheDirs, ok \in BOOLEAN :
          ret' = [NoRet EXCEPT !.op = "get_csv_files_from_dataset",
                               !.status = "returned",
                               !.download_path = LocalDatasetDir(dir),
                               !.csv_file_paths = IF ok THEN CsvFilesIn(disk, dir) ELSE <<>>,
                               !.step_failed = ~ok]
    /\ hist' = Append(hist, [dataset_name |-> <<>>, status |-> "returned",
                             csv_file_paths |-> <<>>, total_files |-> 0, remote |-> FALSE])
    /\ UNCHANGED <<hub, disk, kpc, call, script, Names, Loader, Rest>>

KaggleNext ==
    \/ CallDownload
    \/ UberStart
    \/ ServerStart
    \/ DownloadCacheDir
    \/ DownloadCached
    \/ DownloadRemote
    \/ DownloadCopy
    \/ DownloadScan
    \/ DownloadExcept
    \/ UberCheck
    \/ UberImport
    \/ UberCount
    \/ UberDone
    \/ ServerCheck
    \/ ImportStart
    \/ ImportCheck
    \/ ImportLoad
    \/ ListDownloaded
    \/ GetCsvFiles

KaggleSpec == KaggleInit /\ [][KaggleNext]_vars

----------------------------------------------------------------------------
(* src/csv_importer.py, two invocations of create_table_from_csv for the same *)
(* table side by side: two processes, each with its own engine, against one   *)
(* database.  Every statement is a transaction of its own on the engine, so   *)
(* the statements of the two invocations interleave in any order, each of     *)
(* them atomic.  db is the committed database both see.                       *)

Procs == {1, 2}

\* The files the two invocations are given.
RaceFiles == {FilePeople, FileNull, FileHeaderOnly, FileSemi, FileBadRow}

LoaderButDb == <<scn, tx, conn, kind, pc, args, headers, loc, exc, log, out, pre, prev, runs>>

RaceInit ==
    /\ \E f1, f2 \in RaceFiles :
          inv = <<[NoInv EXCEPT !.pc = "read_csv", !.file = f1],
                  [NoInv EXCEPT !.pc = "read_csv", !.file = f2]>>
    /\ db \in InitDbs("public")
    /\ demo = NoDemo
    /\ scn = [file |-> FilePeople, schema |-> "public", delimiter |-> COMMA,
              quote |-> DQ, null_token |-> NullTokenDefault]
    /\ tx = db
    /\ conn = "none"
    /\ kind = "none"
    /\ pc = "idle"
    /\ args = NoArgs
    /\ headers = NoHeaders
    /\ loc = NoLoc
    /\ exc = "none"
    /\ log = <<>>
    /\ out = NoOut
    /\ pre = db
    /\ prev = NoPrev
    /\ runs = 0
    /\ given = NoNames
    /\ sql = <<>>
    /\ who = "none"
    /\ KaggleIdle

\* The invocation p goes on with its locals changed to v.
Goes(p, v) == inv' = [inv EXCEPT ![p] = v]

\* df = pd.read_csv(csv_path)
RaceReadCsv(p) ==
    /\ inv[p].pc = "read_csv"
    /\ LET r == pd_read_csv(inv[p].file) IN
       Goes(p, IF r.ok
               THEN [inv[p] EXCEPT !.df = r.df, !.pc = "has_table"]
               ELSE [inv[p] EXCEPT !.exc = r.err, !.pc = "except"])
    /\ UNCHANGED <<db, demo, LoaderButDb, Names, Kaggle>>

\* table_exists = inspector.has_table(table_name), and the branch on it
RaceHasTable(p) ==
    /\ inv[p].pc = "has_table"
    /\ \E ok \in BOOLEAN :
          Goes(p, IF ok
                  THEN [inv[p] EXCEPT !.table_exists = db.tbl.exists,
                                      !.if_exists_mode = IfExistsMode(db.tbl.exists),
                                      !.pc = ImpAfterHasTable(db.tbl.exists)]
                  ELSE [inv[p] EXCEPT !.exc = "DatabaseError", !.pc = "except"])
    /\ UNCHANGED <<db, demo, LoaderButDb, Names, Kaggle>>

\* with self.engine.begin() as conn: conn.execute(text("TRUNCATE TABLE ..."))
RaceTruncate(p) ==
    /\ inv[p].pc = "truncate"
    /\ \E env \in BOOLEAN :
          LET r == PgTruncate(db) IN
          IF env /\ r.ok
          THEN db' = r.d /\ Goes(p, [inv[p] EXCEPT !.pc = "to_sql"])
          ELSE db' = db /\ Goes(p, [inv[p] EXCEPT !.exc = "DatabaseError", !.pc = "except"])
    /\ UNCHANGED <<demo, LoaderButDb, Names, Kaggle>>

\* df.to_sql(name=table_name, con=self.engine, if_exists=if_exists_mode, ...)
RaceToSql(p) ==
    /\ inv[p].pc = "to_sql"
    /\ \E env \in BOOLEAN :
          LET r == PdToSql(db, inv[p].df, inv[p].if_exists_mode) IN
          IF env /\ r.ok
          THEN db' = r.d /\ Goes(p, [inv[p] EXCEPT !.loaded = Len(inv[p].df.rows), !.pc = "count"])
          ELSE db' = db /\ Goes(p, [inv[p] EXCEPT !.exc = "DatabaseError", !.pc = "except"])
    /\ UNCHANGED <<demo, LoaderButDb, Names, Kaggle>>

\* with self.engine.connect() as conn: row_count = SELECT COUNT(*) ...
RaceCount(p) ==
    /\ inv[p].pc = "count"
    /\ \E env \in BOOLEAN :
          LET r == PgCount(db) IN
          Goes(p, IF env /\ r.ok
                  THEN [inv[p] EXCEPT !.row_count = r.n, !.pc = "return"]
                  ELSE [inv[p] EXCEPT !.exc = "DatabaseError", !.pc = "except"])
    /\ UNCHANGED <<db, demo, LoaderButDb, Names, Kaggle>>

\* return f"Imported {row_count} rows into table '{table_name}'"
RaceReturn(p) ==
    /\ inv[p].pc = "return"
    /\ Goes(p, [inv[p] EXCEPT !.ret = <<[line |-> "Imported", n |-> inv[p].row_count]>>,
                              !.pc = "returned"])
    /\ UNCHANGED <<db, demo, LoaderButDb, Names, Kaggle>>

\* except Exception as e: logger.error(...); raise
RaceExcept(p) ==
    /\ inv[p].pc = "except"
    /\ Goes(p, [inv[p] EXCEPT !.pc = "raised"])
    /\ UNCHANGED <<db, demo, LoaderButDb, Names, Kaggle>>

RaceNext ==
    \/ \E p \in Procs : RaceReadCsv(p)
    \/ \E p \in Procs : RaceHasTable(p)
    \/ \E p \in Procs : RaceTruncate(p)
    \/ \E p \in Procs : RaceToSql(p)
    \/ \E p \in Procs : RaceCount(p)
    \/ \E p \in Procs : RaceReturn(p)
    \/ \E p \in Procs : RaceExcept(p)

RaceSpec == RaceInit /\ [][RaceNext]_vars

----------------------------------------------------------------------------
(* src/vanna_flask_app.py: create_vanna_with_pg, and src/vanna_local_demo.py: *)
(* main, as far as they choose the table behind the view uber_bookings.       *)

\* How many runs of a demo one behaviour holds.
MaxDemoRuns == 2

T_ncr_ride_bookings ==
    <<"n", "c", "r", "_", "r", "i", "d", "e", "_", "b", "o", "o", "k", "i", "n", "g", "s">>
T_uber_rides == <<"u", "b", "e", "r", "_", "r", "i", "d", "e", "s">>
T_Uber == <<"U", "b", "e", "r">>
T_ride2 == <<"r", "i", "d", "e", "2">>
T_t == <<"t">>
W_uber == <<"u", "b", "e", "r">>
W_ride == <<"r", "i", "d", "e">>

\* The public base tables there can be, and the values of DATA_TABLE: unset
\* (written <<>>), the name of a table that can exist, a name of none.
DemoTables == {T_ncr_ride_bookings, T_uber_rides, T_Uber, T_ride2, T_t}
DataTableSettings == {<<>>, T_t, T_Uber, <<"x">>}

\* The orders in which iterating the set can yield its elements: a set of
\* str has no order of its own, the order depends on the process's hash seed.
IterationOrders(S) ==
    {o \in [1..Cardinality(S) -> S] : \A i, j \in 1..Cardinality(S) : i # j => o[i] # o[j]}

\* "uber" in t.lower() or "ride" in t.lower()
LooksLikeUber(t) == Contains(LowerAll(t), W_uber) \/ Contains(LowerAll(t), W_ride)

\* Lines 67-75 (flask) and 47-56 (local): the target table, None written
\* <<>>; order is the order in which `for t in available` yields the names.
TargetTable(preferred, available, order) ==
    LET matches == SelectSeq(order, LooksLikeUber)
    IN  IF preferred # <<>> /\ preferred \in available THEN preferred
        ELSE IF T_ncr_ride_bookings \in available THEN T_ncr_ride_bookings
        ELSE IF T_uber_rides \in available THEN T_uber_rides
        ELSE IF matches # <<>> THEN matches[1] ELSE <<>>

DemoInit ==
    /\ \E av \in SUBSET DemoTables, pr \in DataTableSettings :
          demo = [available |-> av, preferred |-> pr, runs |-> <<>>]
    /\ inv = <<NoInv, NoInv>>
    /\ scn = [file |-> FilePeople, schema |-> "public", delimiter |-> COMMA,
              quote |-> DQ, null_token |-> NullTokenDefault]
    /\ db = [schemas |-> {"public"}, tbl |-> NoTable]
    /\ tx = db
    /\ conn = "none"
    /\ kind = "none"
    /\ pc = "idle"
    /\ args = NoArgs
    /\ headers = NoHeaders
    /\ loc = NoLoc
    /\ exc = "none"
    /\ log = <<>>
    /\ out = NoOut
    /\ pre = db
    /\ prev = NoPrev
    /\ runs = 0
    /\ given = NoNames
    /\ sql = <<>>
    /\ who = "none"
    /\ KaggleIdle

\* One run of a demo as the record of what it did.
DemoRun(app, target_table, view_of, error) ==
    [app |-> app, target_table |-> target_table, view_of |-> view_of, error |-> error]

\* vanna_flask_app.create_vanna_with_pg, lines 58-107: select the table; if
\* there is one, CREATE OR REPLACE VIEW uber_bookings over it (the statements
\* can fail); if there is none, go on without a view.
FlaskSelect ==
    /\ Len(demo.runs) < MaxDemoRuns
    /\ \E order \in IterationOrders(demo.available), ok \in BOOLEAN :
          LET target_table == TargetTable(demo.preferred, demo.available, order)
              run == IF target_table = <<>> THEN DemoRun("flask", <<>>, <<>>, "none")
                     ELSE IF ok THEN DemoRun("flask", target_table, target_table, "none")
                     ELSE DemoRun("flask", target_table, <<>>, "DatabaseError")
          IN  demo' = [demo EXCEPT !.runs = Append(@, run)]
    /\ UNCHANGED <<inv, Loader, Names, Kaggle>>

\* vanna_local_demo.main, lines 37-91: select the table; raise ValueError if
\* there is none; CREATE OR REPLACE VIEW uber_bookings over it.
LocalSelect ==
    /\ Len(demo.runs) < MaxDemoRuns
    /\ \E order \in IterationOrders(demo.available), ok \in BOOLEAN :
          LET target_table == TargetTable(demo.preferred, demo.available, order)
              run == IF target_table = <<>> THEN DemoRun("local", <<>>, <<>>, "ValueError")
                     ELSE IF ok THEN DemoRun("local", target_table, target_table, "none")
                     ELSE DemoRun("local", target_table, <<>>, "DatabaseError")
          IN  demo' = [demo EXCEPT !.runs = Append(@, run)]
    /\ UNCHANGED <<inv, Loader, Names, Kaggle>>

DemoNext ==
    \/ FlaskSelect
    \/ LocalSelect

DemoSpec == DemoInit /\ [][DemoNext]_vars

----------------------------------------------------------------------------
(* How PostgreSQL reads the names in a statement *)

IdentStart == {"a", "b", "c", "s", "v", "A", "B", "_"}
IdentPart == IdentStart \cup {"$"}

RECURSIVE PgQuotedIdent(_, _, _)
\* A delimited identifier from the character after its opening quote: a
\* doubled quote is one quote of the name, a single one ends it; the name may
\* not be empty.
PgQuotedIdent(text, i, acc) ==
    IF i > Len(text) THEN [ok |-> FALSE, name |-> acc, next |-> i]
    ELSE IF text[i] = DQ
    THEN IF i < Len(text) /\ text[i + 1] = DQ
         THEN PgQuotedIdent(text, i + 2, Append(acc, DQ))
         ELSE [ok |-> acc # <<>>, name |-> acc, next |-> i + 1]
    ELSE PgQuotedIdent(text, i + 1, Append(acc, text[i]))

RECURSIVE PgBareIdent(_, _, _)
\* An undelimited identifier: letters and underscores, folded to lower case.
PgBareIdent(text, i, acc) ==
    IF i <= Len(text) /\ text[i] \in (IF acc = <<>> THEN IdentStart ELSE IdentPart)
    THEN PgBareIdent(text, i + 1, Append(acc, Lower(text[i])))
    ELSE [ok |-> acc # <<>>, name |-> acc, next |-> i]

PgIdent(text, i) ==
    IF i <= Len(text) /\ text[i] = DQ
    THEN PgQuotedIdent(text, i + 1, <<>>)
    ELSE PgBareIdent(text, i, <<>>)

RECURSIVE PgNames(_, _, _, _)
\* A list of identifiers separated by sep (blanks may follow sep), each
\* optionally followed by the type TEXT; the whole text must be such a list.
PgNames(text, i, sep, acc) ==
    LET r == PgIdent(text, i)
        j == IF r.next + 1 <= Len(text) /\ text[r.next] = " " /\ text[r.next + 1] = "TEXT"
             THEN r.next + 2 ELSE r.next
        names == Append(acc, r.name)
    IN  IF ~r.ok THEN [ok |-> FALSE, names |-> acc]
        ELSE IF j > Len(text) THEN [ok |-> TRUE, names |-> names]
        ELSE IF text[j] # sep THEN [ok |-> FALSE, names |-> names]
        ELSE IF j + 1 <= Len(text) /\ text[j + 1] = " "
        THEN PgNames(text, j + 2, sep, names)
        ELSE PgNames(text, j + 1, sep, names)

\* The object a statement addresses and the columns it lists.
PgReads(stmt) ==
    LET t == PgNames(stmt.table, 1, ".", <<>>)
        c == IF stmt.columns = <<>> THEN [ok |-> stmt.cols_of = <<>>, names |-> <<>>]
             ELSE PgNames(stmt.columns, 1, ",", <<>>)
    IN  [ok |-> t.ok /\ c.ok, of |-> t.names, cols_of |-> c.names]

----------------------------------------------------------------------------
(* What the claims speak about *)

\* The entry point that log, out, pre and args describe: the running one, or
\* the one that finished last.
Cur == IF kind # "none" THEN kind ELSE prev.kind

CopyDone == kind = "none" /\ prev.kind = "copy"
ImporterDone == kind = "none" /\ prev.kind = "importer"

Has(op) == \E k \in 1..Len(log) : log[k].op = op
HasOk(op) == \E k \in 1..Len(log) : log[k].op = op /\ log[k].ok
HasFailed(op) == \E k \in 1..Len(log) : log[k].op = op /\ ~log[k].ok
Pos(op) == CHOOSE k \in 1..Len(log) : log[k].op = op

\* Steps 2-5 of a run of main, and its steps after connect.
StepOps == {"CREATE SCHEMA", "CREATE TABLE", "TRUNCATE", "COPY", "SELECT COUNT"}
StepFailed == \E k \in 1..Len(log) : log[k].op \in StepOps /\ ~log[k].ok
AfterConnectFailed == \E k \in 1..Len(log) : log[k].op \in StepOps \cup {"COMMIT"} /\ ~log[k].ok

DataRows(file) == Len(file.lines) - 1

Rank(op) ==
    CASE op = "read_header" -> 1
      [] op = "connect" -> 2
      [] op = "CREATE SCHEMA" -> 3
      [] op = "CREATE TABLE" -> 4
      [] op = "TRUNCATE" -> 5
      [] op = "COPY" -> 6
      [] op = "SELECT COUNT" -> 7
      [] op = "COMMIT" -> 8
      [] op = "ROLLBACK" -> 9
      [] OTHER -> 10

----------------------------------------------------------------------------
\* C1: in a run of main whose connection was opened, once one of the steps
\* create schema/table, TRUNCATE, COPY, SELECT COUNT has failed, the committed
\* database is the one the run started from (same schemas, same table
\* existence, columns and rows), and the run issues ROLLBACK before it closes.
C1_FailedRunLeavesTableUntouched ==
    (Cur = "copy" /\ StepFailed) =>
        /\ db = pre
        /\ pc \in {"close", "exit", "idle"} => Has("ROLLBACK")

\* A finished run over the file with the bad third row that had truncated a
\* table holding rows: the rows are back.
C1_Witness ==
    /\ CopyDone
    /\ scn.file = FileBadRow
    /\ HasOk("TRUNCATE") /\ HasFailed("COPY")
    /\ RowsOf(pre) > 0
    /\ db = pre

\* C2 (as claimed): whenever CSVImporter.create_table_from_csv fails, the
\* table is exactly as before the call.
C2_ImporterFailureLeavesTableUntouched ==
    (Cur = "importer" /\ exc # "none") => db = pre

\* The order of a run of main: the steps in the fixed order, each at most
\* once and only under its flag, COMMIT only after every earlier step
\* succeeded, ROLLBACK exactly when a step after connect failed.
C3_OrderBody ==
    /\ \A i, j \in 1..Len(log) : i < j => Rank(log[i].op) < Rank(log[j].op)
    /\ \A k \in 1..Len(log) : Rank(log[k].op) > 1 => HasOk("read_header")
    /\ \A k \in 1..Len(log) : Rank(log[k].op) > 2 => HasOk("connect")
    /\ (Has("CREATE SCHEMA") \/ Has("CREATE TABLE")) => args.create_table
    /\ Has("TRUNCATE") => args.truncate
    /\ Has("COMMIT") =>
          /\ \A k \in 1..Len(log) : k < Pos("COMMIT") => log[k].ok
          /\ HasOk("COPY") /\ HasOk("SELECT COUNT")
          /\ args.create_table => HasOk("CREATE SCHEMA") /\ HasOk("CREATE TABLE")
          /\ args.truncate => HasOk("TRUNCATE")
    /\ pc \in {"close", "exit", "idle"} => (Has("ROLLBACK") <=> AfterConnectFailed)

\* C3 (as claimed): the steps of main run in the fixed order, each at most
\* once, COMMIT only after every earlier step succeeded, ROLLBACK exactly when
\* a step after connect failed, and no run issues both COMMIT and ROLLBACK.
C3_NeverCommitAndRollback ==
    Cur = "copy" => (C3_OrderBody /\ ~(Has("COMMIT") /\ Has("ROLLBACK")))

\* C3 (amended): as claimed, but ROLLBACK never follows a COMMIT that
\* succeeded; a COMMIT that failed is followed by ROLLBACK.
C3_OrderAndSingleOutcome ==
    Cur = "copy" => (C3_OrderBody /\ ~(HasOk("COMMIT") /\ Has("ROLLBACK")))

\* A committed run with both flags: nine calls, in order.
C3_Witness ==
    /\ CopyDone
    /\ args.create_table /\ args.truncate
    /\ HasOk("COMMIT")
    /\ Len(log) = 9

FirstLoad ==
    /\ prev.kind = "copy" /\ prev.ok
    /\ prev.before = 0
    /\ prev.after = DataRows(scn.file)

\* The run after it, without --truncate and without --create-table, with its
\* outcome decided.
SecondLoadOver ==
    /\ kind = "copy" /\ pc = "exit"
    /\ ~args.truncate /\ ~args.create_table
    /\ FirstLoad

\* A successful run without --truncate adds the file's data rows to the rows
\* that were there.
C5_AppendAdds ==
    (CopyDone /\ prev.ok /\ ~prev.truncate) =>
        prev.after = prev.before + DataRows(scn.file)

\* Reloading repeats a key: some row of the first load has a non-NULL value in
\* the constrained column.
KeyRepeats == \E k \in 1..Len(pre.tbl.rows) : ~pre.tbl.rows[k][1].null

\* C5 (as claimed): the second load gives 2n rows without a uniqueness
\* constraint and otherwise fails leaving the n rows.
C5_SecondLoadDoublesOrFails ==
    /\ C5_AppendAdds
    /\ SecondLoadOver =>
          IF db.tbl.unique
          THEN exc # "none" /\ RowsOf(db) = DataRows(scn.file)
          ELSE exc = "none" => RowsOf(db) = 2 * DataRows(scn.file)

\* C5 (amended): with a uniqueness constraint the second load fails, leaving
\* the n rows, when it repeats a non-NULL key; with no data rows or only NULL
\* keys it succeeds like a load into an unconstrained table, giving 2n rows.
C5_SecondLoadDoublesOrFailsOnRepeatedKey ==
    /\ C5_AppendAdds
    /\ SecondLoadOver =>
          IF db.tbl.unique /\ KeyRepeats
          THEN exc # "none" /\ RowsOf(db) = DataRows(scn.file)
          ELSE exc = "none" => RowsOf(db) = 2 * DataRows(scn.file)

\* The second load of a two-row file was rejected by the uniqueness
\* constraint: the two rows of the first load are what the table holds.
C5_Witness ==
    /\ SecondLoadOver
    /\ db.tbl.unique /\ KeyRepeats
    /\ HasFailed("COPY")
    /\ ~PgCopy(db, headers.v, scn.file.lines, scn.delimiter, scn.quote, scn.null_token).ok
    /\ DataRows(scn.file) = 2
    /\ RowsOf(db) = 2

\* C6: create_table_from_csv truncates and appends when the table exists at
\* inspection and loads with 'fail' when it does not; it never uses 'replace',
\* and a table that existed before the call keeps its definition.
C6_NeverDropAndRecreate ==
    Cur = "importer" =>
        /\ loc.if_exists_mode \in {"unset", "append", "fail"}
        /\ HasOk("has_table") =>
              loc.if_exists_mode = IF loc.table_exists THEN "append" ELSE "fail"
        /\ Has("to_sql") =>
              IF loc.table_exists THEN HasOk("TRUNCATE") ELSE ~Has("TRUNCATE")
        /\ pre.tbl.exists =>
              /\ db.tbl.exists
              /\ db.tbl.cols = pre.tbl.cols
              /\ db.tbl.unique = pre.tbl.unique

\* A successful import into an existing table whose columns are not the
\* file's column list.
C6_Witness ==
    /\ ImporterDone /\ prev.ok
    /\ pre.tbl.exists /\ RowsOf(pre) = 0
    /\ Len(pre.tbl.cols) = 3
    /\ HasOk("TRUNCATE") /\ HasOk("to_sql")
    /\ db.tbl.cols = pre.tbl.cols
    /\ RowsOf(db) = 2

\* A run of main that opened its connection has closed it when it ends; the
\* close comes after the run's COMMIT or ROLLBACK and nothing is sent after it.
C7_CloseIsLast ==
    Cur = "copy" =>
        /\ (pc \in {"exit", "idle"} /\ HasOk("connect")) => (conn = "closed" /\ Has("close"))
        /\ conn = "open" => pc \notin {"exit", "idle"}
        /\ Has("close") =>
              /\ Has("COMMIT") \/ Has("ROLLBACK")
              /\ Pos("close") = Len(log)

\* C7: a connection main has opened is eventually closed, whether the run
\* committed, rolled back or failed to roll back, and the close always comes
\* after the run's COMMIT or ROLLBACK, never before it.
C7_ConnectionClosedLast ==
    /\ []C7_CloseIsLast
    /\ (conn = "open") ~> (conn = "closed")

\* A finished run whose rollback itself failed.
C7_Witness ==
    /\ CopyDone
    /\ HasFailed("ROLLBACK")
    /\ conn = "closed"

\* C8 (as claimed): a committed run prints the count and exits 0; every other
\* run writes a diagnostic, exits non-zero and prints no 'Loaded N rows' line.
C8_OutcomeReported ==
    CopyDone =>
        IF HasOk("COMMIT")
        THEN /\ out.exit = "0"
             /\ out.stdout = <<[line |-> "Loaded", n |-> RowsOf(db)]>>
        ELSE /\ out.exit = "1"
             /\ out.stderr # <<>>
             /\ out.stdout = <<>>

\* C9 (as claimed): the column list main uses is the header record split with
\* the configured delimiter and quote character, as COPY splits it.
C9_HeaderReadAsConfigured ==
    (Cur = "copy" /\ headers.set) =>
        /\ headers.v = CopyFieldTexts(scn.file.lines[1], scn.delimiter, scn.quote)
        /\ (HasOk("CREATE TABLE") /\ ~pre.tbl.exists /\ tx.tbl.exists) =>
              ColNames(tx.tbl) = headers.v

\* C10: a missing source ends the run with the not-found error, an empty one
\* with the error of a file without a first record; the two differ, the run
\* reports failure, and no column list (no frame) is produced.
C10_HeaderErrorPerCause ==
    /\ CopyDone =>
          /\ ~scn.file.exists =>
                /\ out.stderr = <<"CSV not found">> /\ out.exit = "1"
                /\ ~headers.set /\ log = <<>>
          /\ (scn.file.exists /\ scn.file.lines = <<>>) =>
                /\ out.stderr = <<"StopIteration">> /\ out.exit = "1"
                /\ ~headers.set /\ ~Has("connect")
    /\ ImporterDone =>
          /\ ~scn.file.exists =>
                /\ out.stderr = <<"FileNotFoundError">> /\ out.exit = "raised"
                /\ loc.df = NoDf /\ ~Has("has_table")
          /\ (scn.file.exists /\ scn.file.lines = <<>>) =>
                /\ out.stderr = <<"EmptyDataError">> /\ out.exit = "raised"
                /\ loc.df = NoDf /\ ~Has("has_table")

\* A finished run of main over the empty file.
C10_Witness ==
    /\ CopyDone
    /\ scn.file = FileEmpty
    /\ out.stderr = <<"StopIteration">>
    /\ out.exit = "1"

----------------------------------------------------------------------------
\* The header record of the file as the invocation's dialect splits it.
FileHeader == CopyFieldTexts(scn.file.lines[1], scn.delimiter, scn.quote)

\* A run of main with --create-table against a missing table that committed.
AutoCreated == CopyDone /\ prev.ok /\ args.create_table /\ ~pre.tbl.exists

\* C11 (as claimed): after a successful --create-table run against a missing
\* table, the table has exactly one column per entry of the file's header,
\* with the header's names in the header's order, each TEXT and nullable.
C11_AutoCreatedColumnsAreFileHeader ==
    AutoCreated =>
        /\ db.tbl.exists
        /\ db.tbl.cols = [k \in 1..Len(FileHeader) |-> Col(FileHeader[k], "TEXT")]

\* The table's definition: whether it exists, its columns and its constraint.
Definition(d) == [exists |-> d.tbl.exists, cols |-> d.tbl.cols, unique |-> d.tbl.unique]

\* C12: a run of main never changes the definition of a table that existed
\* before it, with or without --create-table; without --create-table it sends
\* no CREATE SCHEMA and no CREATE TABLE, so the schemas and the existence of
\* the table stay as they were (a missing table stays missing).  This holds
\* at every point of the run, inside its transaction as well.
C12_EnsureTableKeepsExistingTable ==
    Cur = "copy" =>
        /\ pre.tbl.exists =>
              /\ Definition(db) = Definition(pre)
              /\ Definition(tx) = Definition(pre)
        /\ ~args.create_table =>
              /\ ~Has("CREATE SCHEMA") /\ ~Has("CREATE TABLE")
              /\ db.schemas = pre.schemas /\ tx.schemas = pre.schemas
              /\ Definition(db) = Definition(pre)
              /\ Definition(tx) = Definition(pre)

\* A committed --create-table run into an existing three-column table whose
\* columns are not the file's column list: CREATE TABLE succeeded, the rows
\* were loaded and the columns are the three it had.
C12_Witness ==
    /\ CopyDone /\ prev.ok
    /\ args.create_table
    /\ pre.tbl.exists /\ Len(pre.tbl.cols) = 3
    /\ HasOk("CREATE TABLE")
    /\ Len(headers.v) = 2
    /\ RowsOf(db) = 2
    /\ db.tbl.cols = pre.tbl.cols

IsPrefix(s, t) == Len(s) <= Len(t) /\ \A k \in 1..Len(s) : s[k] = t[k]

\* The calls and statements of main; there is no DROP among them.
MainOps == {"read_header", "connect", "CREATE SCHEMA", "CREATE TABLE", "TRUNCATE",
            "COPY", "SELECT COUNT", "COMMIT", "ROLLBACK", "close"}

\* In a run of main: only the statements of main are sent, TRUNCATE only under
\* --truncate; a table that existed keeps its definition; without --truncate
\* the rows the table held before the run are still there, in the
\* transaction and, however the run ends, in the committed table.
C13_RowsKeptWithoutTruncate ==
    Cur = "copy" =>
        /\ \A k \in 1..Len(log) : log[k].op \in MainOps
        /\ Has("TRUNCATE") => args.truncate
        /\ pre.tbl.exists =>
              /\ Definition(db) = Definition(pre)
              /\ Definition(tx) = Definition(pre)
        /\ (~args.truncate /\ pre.tbl.exists) =>
              /\ IsPrefix(pre.tbl.rows, tx.tbl.rows)
              /\ IsPrefix(pre.tbl.rows, db.tbl.rows)
        /\ (pc = "copy" /\ args.truncate) => HasOk("TRUNCATE") /\ tx.tbl.rows = <<>>

\* The TRUNCATE step of main: when it succeeds the table has no rows inside
\* the transaction and the definition and the schemas it had before the step;
\* when it fails nothing changed; the committed state is untouched either way.
C13_TruncateStepFrame ==
    Truncate =>
        /\ db' = db
        /\ Definition(tx') = Definition(tx)
        /\ tx'.schemas = tx.schemas
        /\ IF log'[Len(log')].ok THEN tx'.tbl.rows = <<>> ELSE tx' = tx

\* C13: with --truncate the clear-table step empties the rows and leaves the
\* table's definition (columns, constraint) as it was, no DROP is ever sent by
\* main, and without --truncate the rows present before the run are all still
\* present afterwards.
C13_ClearTableOnlyRemovesRows ==
    /\ []C13_RowsKeptWithoutTruncate
    /\ [][C13_TruncateStepFrame]_vars

\* A committed --truncate run over a table with a uniqueness constraint that
\* held a row: the old row is gone, the two rows of the file are there, the
\* columns and the constraint are the ones it had.
C13_Witness ==
    /\ CopyDone /\ prev.ok
    /\ args.truncate
    /\ pre.tbl.exists /\ pre.tbl.unique /\ pre.tbl.rows = <<R_zz>>
    /\ HasOk("TRUNCATE")
    /\ RowsOf(db) = 2 /\ R_zz \notin Range(db.tbl.rows)
    /\ Definition(db) = Definition(pre)

----------------------------------------------------------------------------
\* The text a list of names becomes when each is passed through quote_ident.
QuotedNames(ns, sep) == Join([m \in 1..Len(ns) |-> quote_ident(ns[m])], sep)
QuotedColumnDefs(ns) ==
    Join([m \in 1..Len(ns) |-> quote_ident(ns[m]) \o <<" ", "TEXT">>], <<",", " ">>)

\* The names of a statement are quoted: the text in the table position and in
\* the column list is the quoted form of the names interpolated there.
NamesQuoted(stmt) ==
    /\ stmt.table = QuotedNames(stmt.of, <<".">>)
    /\ stmt.columns = IF stmt.verb = "CREATE TABLE" THEN QuotedColumnDefs(stmt.cols_of)
                      ELSE QuotedNames(stmt.cols_of, <<",", " ">>)

\* PostgreSQL reads the statement as addressing exactly the names given.
ReadsAsGiven(stmt) ==
    LET r == PgReads(stmt) IN r.ok /\ r.of = stmt.of /\ r.cols_of = stmt.cols_of

NamesNonEmpty(stmt) == <<>> \notin Range(stmt.of) \cup Range(stmt.cols_of)

\* C14 (as claimed): every schema, table and column name in a statement built
\* by main, by CSVImporter or by the import scripts went through quote_ident,
\* so the statement addresses exactly the object named.
C14_EveryNameIsQuoted ==
    \A k \in 1..Len(sql) :
        /\ NamesQuoted(sql[k])
        /\ NamesNonEmpty(sql[k]) => ReadsAsGiven(sql[k])

\* What is left of a quoted form when the outer quotes are taken off and every
\* doubled quote is read as one.
Unquoted(q) == PgQuotedIdent(q, 2, <<>>)

QuoteCount(t) == Cardinality({k \in 1..Len(t) : t[k] = DQ})

\* quote_ident encodes the name n faithfully.
Faithful(n) ==
    LET q == quote_ident(n) IN
    /\ Len(q) >= 2 /\ q[1] = DQ /\ q[Len(q)] = DQ
    /\ Len(q) = Len(n) + QuoteCount(n) + 2
    /\ QuoteCount(q) = 2 * QuoteCount(n) + 2
    /\ Unquoted(q).name = n
    /\ Unquoted(q).next = Len(q) + 1
    /\ \A m \in Idents : quote_ident(m) = q => m = n

\* C15: for every name the quoted form starts and ends with a double quote,
\* doubles every embedded double quote and is undone by un-escaping (so two
\* names never share a quoted form), and the statements main builds from
\* non-empty names, names with double quotes included, are read by PostgreSQL
\* as well-formed statements about exactly those names.
C15_QuoteIdentFaithful ==
    /\ \A n \in {given.schema, given.table} \cup Range(given.headers) : Faithful(n)
    /\ who = "copy_csv_to_postgres.main" =>
          \A k \in 1..Len(sql) :
              /\ NamesQuoted(sql[k])
              /\ NamesNonEmpty(sql[k]) => ReadsAsGiven(sql[k])

\* main has built its statements for the schema " and the table a": the
\* TRUNCATE addresses """"."a""" and PostgreSQL reads the names back.
C15_Witness ==
    /\ who = "copy_csv_to_postgres.main"
    /\ given.schema = <<DQ>> /\ given.table = <<"a", DQ>> /\ Len(given.headers) = 2
    /\ sql[3].table = <<DQ, DQ, DQ, DQ, ".", DQ, "a", DQ, DQ, DQ>>
    /\ ReadsAsGiven(sql[3]) /\ ReadsAsGiven(sql[4])

----------------------------------------------------------------------------
\* The column names the entry point takes from the file.
FileColumns ==
    IF Cur = "copy" THEN read_csv_header(scn.file) ELSE
    LET r == pd_read_csv(scn.file) IN [ok |-> r.ok, err |-> r.err, v |-> r.df.cols]

\* The file names a column that the table the invocation found does not have.
ColumnMismatch ==
    /\ pre.tbl.exists
    /\ FileColumns.ok
    /\ ~(Range(FileColumns.v) \subseteq Range(ColNames(pre.tbl)))

\* C16 (as claimed): a load of a file with a column the pre-existing table
\* lacks, by main or by create_table_from_csv, fails with a report and leaves
\* the table's rows and columns as they were; no column is ever added,
\* dropped or renamed to make the load fit.
C16_MismatchFailsAndKeepsTable ==
    (Cur \in {"copy", "importer"} /\ ColumnMismatch) =>
        /\ Definition(db) = Definition(pre)
        /\ kind = "none" =>
              /\ ~prev.ok
              /\ out.exit \in {"1", "raised"}
              /\ out.stderr # <<>>
              /\ db = pre

----------------------------------------------------------------------------
\* The data records of the file as COPY splits them.
DataRecords ==
    [k \in 1..DataRows(scn.file) |->
        CopyRecord(scn.file.lines[k + 1], scn.delimiter, scn.quote).fields]

\* C18 as claimed reads a field by its text alone; PostgreSQL also looks at
\* whether the field was quoted.
TokenIsNull(f) == IF f.txt = scn.null_token THEN NULL ELSE Val(f.txt)
UnquotedTokenIsNull(f) == IF ~f.quoted /\ f.txt = scn.null_token THEN NULL ELSE Val(f.txt)

\* The rows the table holds before the COPY of the current run of main.
RowsBeforeCopy == IF args.truncate \/ ~pre.tbl.exists THEN <<>> ELSE pre.tbl.rows

\* The run of main loaded its rows: COPY succeeded and was not rolled back.
Loaded == Cur = "copy" /\ HasOk("COPY") /\ ~Has("ROLLBACK")

\* The previous run of main loaded the file into a table it found or left
\* without other rows, and the current one has committed.
Reloaded ==
    /\ kind = "copy" /\ pc = "exit" /\ exc = "none"
    /\ prev.kind = "copy" /\ prev.ok
    /\ prev.truncate \/ prev.before = 0

\* Two runs over the same file, delimiter, quote and null token loaded the
\* same rows.
SameRowsOnReload ==
    Reloaded => db.tbl.rows = RowsBeforeCopy \o pre.tbl.rows

\* C18 (as claimed): every field of a loaded row whose text is the configured
\* null token is stored as NULL and every other field as its text; a reload
\* with the same file, delimiter, quote and token loads the same rows.
C18_TokenFieldsAreNull ==
    /\ Loaded =>
          /\ Len(tx.tbl.rows) = Len(RowsBeforeCopy) + DataRows(scn.file)
          /\ \A k \in 1..DataRows(scn.file) :
                tx.tbl.rows[Len(RowsBeforeCopy) + k] =
                    StoredRow(tx.tbl, headers.v,
                              [m \in 1..Len(headers.v) |-> TokenIsNull(DataRecords[k][m])])
    /\ SameRowsOnReload

\* C18 (amended): a field is stored as NULL when it is unquoted and its text
\* is the configured null token; a quoted field and a field of another text
\* are stored as their text; a reload loads the same rows.
C18_UnquotedTokenFieldsAreNull ==
    /\ Loaded =>
          /\ Len(tx.tbl.rows) = Len(RowsBeforeCopy) + DataRows(scn.file)
          /\ \A k \in 1..DataRows(scn.file) :
                tx.tbl.rows[Len(RowsBeforeCopy) + k] =
                    StoredRow(tx.tbl, headers.v,
                              [m \in 1..Len(headers.v) |-> UnquotedTokenIsNull(DataRecords[k][m])])
    /\ SameRowsOnReload

\* The file with the word null has been loaded twice into the table (a, b):
\* the unquoted null is NULL, the quoted one is the text null, both times.
C18_Witness ==
    /\ Reloaded /\ ~args.truncate
    /\ scn.file = FileNull
    /\ db.tbl.rows = << <<NULL, Val(<<"y">>)>>, <<Val(NullTokenDefault), Val(<<"x">>)>>,
                        <<NULL, Val(<<"y">>)>>, <<Val(NullTokenDefault), Val(<<"x">>)>> >>

----------------------------------------------------------------------------
\* C17 (as claimed): when a step under a downloader operation or under
\* import_uber.main fails, the caller sees a failure: an exception, a
\* non-zero exit or an error status; never a normal result.
C17_NoErrorSwallowed ==
    /\ ret.step_failed => (ret.raised \/ ret.status = "error")
    /\ (script.step_failed /\ script.exit # "running") => script.exit \in {"raised", "1"}

----------------------------------------------------------------------------
\* The path names a file of the directory dir on the disk.
IsFileUnder(p, dir) ==
    \E rel \in Range(disk[dir].files) : p = LocalDatasetDir(dir) \o <<"/">> \o rel

\* What download_dataset hands back is a success or an error dictionary.
StatusDictionary ==
    ret.op = "download_dataset" =>
        /\ ~ret.raised
        /\ ret.status \in {"success", "error"}
        /\ ret.status = "success" =>
              /\ ret.error = "none" /\ ret.has_files
              /\ ret.download_path = LocalDatasetDir(SafeName(ret.dataset_name))
              /\ \A k \in 1..Len(ret.csv_file_paths) :
                    /\ IsFileUnder(ret.csv_file_paths[k], SafeName(ret.dataset_name))
                    /\ IsPrefix(ret.download_path \o <<"/">>, ret.csv_file_paths[k])
                    /\ IsCsvName(Basename(ret.csv_file_paths[k]))
              /\ ret.csv_files = Len(ret.csv_file_paths)
              /\ ret.csv_files <= ret.total_files
        /\ ret.status = "error" =>
              /\ ret.error # "none"
              /\ ~ret.has_files /\ ret.files = <<>> /\ ret.csv_file_paths = <<>>

\* import_uber.main and the server tool go by the status and nothing else:
\* once their call has returned, the one raises and the other answers with
\* the error text exactly when the status is error.
CallersGoByStatus ==
    (call.op = "none" /\ ret.op = "download_dataset" /\ ret.status \in {"success", "error"}) =>
        /\ (script.caller = "import_uber.main" /\ kpc \notin {"uber_check"}) =>
              (ret.status = "error" <=> (script.exit = "raised" /\ script.stdout = <<>>))
        /\ (script.caller = "server.download_kaggle_dataset" /\ kpc = "idle") =>
              script.stdout = IF ret.status = "error"
                              THEN <<"Error downloading dataset">>
                              ELSE <<"Successfully downloaded dataset">>

\* C19: download_dataset never raises; it returns status success with
\* download_path, csv_file_paths (each a file under download_path named
\* *.csv in any case) and csv_files = len(csv_file_paths) <= total_files, or
\* status error with the message and no file list; import_uber.main and the
\* server tool decide on the status alone.
C19_DownloadNeverRaises ==
    StatusDictionary /\ CallersGoByStatus

\* A download of the dataset of three files has returned: one of them, B.CSV,
\* is listed, the file inside the directory d.csv is not.
C19_Witness ==
    /\ ret.op = "download_dataset" /\ ret.status = "success"
    /\ ret.total_files = 3 /\ ret.csv_files = 1
    /\ ret.csv_file_paths = <<LocalDatasetDir(SafeName(D_od)) \o <<"/">> \o F_B>>
    /\ script.caller = "import_uber.main" /\ script.exit = "0"

----------------------------------------------------------------------------
\* The download_dataset calls among the calls that have returned.
Downloads == {k \in 1..Len(hist) : hist[k].status \in {"success", "error"}}

\* The cache directory is download_dir joined with the dataset name with
\* every "/" replaced by "__".
CacheDirOfName ==
    /\ call.local_dataset_dir # <<>> =>
          call.local_dataset_dir = <<"./datasets", "/">> \o SafeName(call.dataset_name)
    /\ (ret.op = "download_dataset" /\ ret.status = "success") =>
          ret.download_path = <<"./datasets", "/">> \o SafeName(ret.dataset_name)
    /\ SafeName(D_od) = D_o__d

\* C20 (as claimed): after a call that succeeded and stored files, every later
\* call for the same dataset name succeeds with the same csv_file_paths and
\* without the remote download.
C20_CachedAfterAnyStoredFiles ==
    /\ CacheDirOfName
    /\ \A i, j \in Downloads :
          (i < j /\ hist[i].status = "success" /\ hist[i].total_files > 0
                 /\ hist[j].dataset_name = hist[i].dataset_name) =>
              /\ hist[j].status = "success"
              /\ hist[j].csv_file_paths = hist[i].csv_file_paths
              /\ ~hist[j].remote

\* C20 (amended): after a call that succeeded with at least one CSV file in
\* the cache directory, every later call for the same dataset name succeeds
\* with the same csv_file_paths and without the remote download.
C20_CachedAfterStoredCsv ==
    /\ CacheDirOfName
    /\ \A i, j \in Downloads :
          (i < j /\ hist[i].status = "success" /\ hist[i].csv_file_paths # <<>>
                 /\ hist[j].dataset_name = hist[i].dataset_name) =>
              /\ hist[j].status = "success"
              /\ hist[j].csv_file_paths = hist[i].csv_file_paths
              /\ ~hist[j].remote

\* Two calls for o/d: the first downloaded a.csv and r, the second answered
\* from ./datasets/o__d.
C20_Witness ==
    /\ Len(hist) >= 2
    /\ hist[1].dataset_name = D_od /\ hist[2].dataset_name = D_od
    /\ hist[1].status = "success" /\ hist[1].remote
    /\ hist[2].status = "success" /\ ~hist[2].remote
    /\ hist[2].csv_file_paths = <<LocalDatasetDir(D_o__d) \o <<"/">> \o F_a>>
    /\ hist[2].csv_file_paths = hist[1].csv_file_paths

----------------------------------------------------------------------------
\* The rows a table holds after the frame pandas read from the file was
\* stored in it: one row per record, under the frame's column names.
FrameRows(d, file) ==
    LET df == pd_read_csv(file).df
    IN  [k \in 1..Len(df.rows) |-> StoredRow(d.tbl, df.cols, df.rows[k])]

----------------------------------------------------------------------------
\* C24: create_table_from_csv reads and parses the whole file before it
\* touches the database: read_csv is its first step, and when it fails
\* (missing, empty or unparseable file) nothing else has been issued, no
\* TRUNCATE and no load, and the table is exactly as before the call.
C24_ReadBeforeDatabase ==
    Cur = "importer" =>
        /\ log # <<>> => log[1].op = "read_csv"
        /\ HasFailed("read_csv") =>
              /\ log = <<Event("read_csv", FALSE)>>
              /\ ~Has("TRUNCATE") /\ ~Has("to_sql")
              /\ db = pre
              /\ exc \in {"FileNotFoundError", "EmptyDataError", "ParserError"}

\* The call on the file whose third row has a field too many is over: it
\* raised ParserError and the table still holds its row.
C24_Witness ==
    /\ ImporterDone /\ ~prev.ok
    /\ scn.file = FileBadRow
    /\ exc = "ParserError"
    /\ out.exit = "raised"
    /\ pre.tbl.exists /\ RowsOf(pre) = 1
    /\ db = pre

----------------------------------------------------------------------------
\* The source of a run of main is unusable: the file does not exist or its
\* header cannot be read.
SourceUnusable == ~scn.file.exists \/ ~read_csv_header(scn.file).ok

\* C25: main validates its source before acquiring any database resource:
\* when the file does not exist or its header cannot be read, the run ends
\* with exit status 1 without a connection ever opened and without any
\* statement issued; the database is unchanged and no connection is left.
C25_SourceCheckedBeforeConnect ==
    /\ (Cur = "copy" /\ SourceUnusable) =>
          /\ conn = "none"
          /\ \A k \in 1..Len(log) : log[k].op = "read_header" /\ ~log[k].ok
          /\ db = pre /\ tx = pre
          /\ pc \in {"check_path", "read_header", "idle"}
          /\ CopyDone => (~prev.ok /\ out.exit = "1" /\ out.stdout = <<>>)
    /\ (Cur = "copy" /\ Has("connect")) => (Pos("read_header") < Pos("connect"))

\* The run over the empty file is over: it died of StopIteration while
\* reading the header, the connection never opened, the table keeps its row.
C25_Witness ==
    /\ CopyDone /\ ~prev.ok
    /\ scn.file = FileEmpty
    /\ log = <<Event("read_header", FALSE)>>
    /\ exc = "StopIteration"
    /\ out.exit = "1"
    /\ conn = "none"
    /\ db.tbl.exists /\ RowsOf(db) = 1

----------------------------------------------------------------------------
\* The relative paths of the files a result lists.
ListedFiles(r) == {r.files[k].relative_path : k \in 1..Len(r.files)}

\* C27 (as claimed): whenever download_dataset returns status 'success' from
\* the cache branch, the cache directory contains every file of the dataset,
\* also after an earlier call for the same dataset failed while copying and
\* left only some of the files, one of them a CSV.  (Calls for another
\* dataset name are left out: only this dataset wrote into the directory.)
C27_CachedSuccessIsComplete ==
    (/\ ret.op = "download_dataset" /\ ret.status = "success" /\ ~ret.remote
     /\ \A k \in 1..Len(hist) : hist[k].dataset_name = ret.dataset_name)
        => /\ Range(hub[ret.dataset_name].files) \subseteq ListedFiles(ret)
           /\ Range(hub[ret.dataset_name].files)
                 \subseteq Range(disk[SafeName(ret.dataset_name)].files)

----------------------------------------------------------------------------
\* A call of the server tool import_kaggle_csv is over and ret is still the
\* dictionary its download returned.
ToolDone ==
    /\ script.caller = "server.import_kaggle_csv"
    /\ script.exit # "running"
    /\ kpc = "idle"
    /\ ret.op = "download_dataset"

ToolReportsSuccess == "Successfully imported" \in Range(script.stdout)

\* C22 (as claimed): whenever import_kaggle_csv reports success for
\* csv_filename, the file loaded into the table is a CSV of the dataset whose
\* base name equals csv_filename, also when another CSV listed before it has
\* a path that contains csv_filename.
C22_ImportsTheNamedFile ==
    (ToolDone /\ ToolReportsSuccess) =>
        /\ Len(script.imports) = 1
        /\ script.imports[1].ok
        /\ script.imports[1].csv_path \in Range(ret.csv_file_paths)
        /\ Basename(script.imports[1].csv_path) = script.csv_filename

\* No path of the download's result matches csv_filename.
NoMatch == TargetCsv(ret.csv_file_paths, script.csv_filename) = <<>>

\* A caller that takes a normal return for success and an exception for
\* failure sees the call as failed.
CallerSeesFailure == script.exit = "raised"

\* C23 (as claimed): a failed import through import_kaggle_csv is not
\* reported as successful to a caller that treats a normal return as success
\* and an exception as failure, whether the download failed, no CSV matched
\* csv_filename or the load failed; when no CSV matched, the importer was
\* not called, so no table was created, truncated or loaded.
C23_FailedImportIsNotASuccess ==
    ToolDone =>
        /\ (ret.status = "error" \/ NoMatch \/ script.step_failed) => CallerSeesFailure
        /\ (ret.status = "success" /\ NoMatch) => script.imports = <<>>

----------------------------------------------------------------------------
\* import_uber.main has processed every CSV path of the download without an
\* error: it ended normally, no import raised and no count failed.
UberProcessedAll ==
    /\ script.caller = "import_uber.main"
    /\ script.exit = "0"
    /\ ~script.step_failed
    /\ kpc = "idle"
    /\ ret.op = "download_dataset" /\ ret.csv_file_paths # <<>>

\* The table holds the data rows of the file p.
Retained(table_name, p) ==
    \E k \in 1..Len(script.loaded) :
        script.loaded[k] = [table_name |-> table_name, rows_of |-> p]

\* C26 (as claimed): after import_uber.main has processed all CSV paths
\* returned by the downloader without error, every one of those files is
\* retained: for each path p the table sanitize_table_name(p) holds exactly
\* the data rows of p, also when two paths have the same base name in
\* different directories or base names that sanitize_table_name maps to one
\* table name.
C26_EveryCsvRetained ==
    UberProcessedAll =>
        \A k \in 1..Len(ret.csv_file_paths) :
            Retained(sanitize_table_name(ret.csv_file_paths[k]), ret.csv_file_paths[k])

----------------------------------------------------------------------------
\* Both invocations are over.
BothOver == \A p \in Procs : inv[p].pc \in {"returned", "raised"}

\* The table holds exactly the data rows of the file of invocation p.
HoldsFileOf(p) == db.tbl.exists /\ db.tbl.rows = FrameRows(db, inv[p].file)

\* C28 (as claimed): two invocations of create_table_from_csv for the same
\* table that interleave cannot corrupt the result: each ends with an error
\* or with its message, a successful one reports the count of rows it
\* loaded, and when both succeeded the table holds exactly the data rows of
\* one of the two files.
C28_InterleavedImportsKeepOneFile ==
    /\ \A p \in Procs :
          /\ inv[p].pc = "raised" => (inv[p].exc # "none" /\ inv[p].ret = <<>>)
          /\ inv[p].pc = "returned" =>
                (inv[p].exc = "none"
                 /\ inv[p].ret = <<[line |-> "Imported", n |-> inv[p].loaded]>>)
    /\ (\A p \in Procs : inv[p].pc = "returned") => \E p \in Procs : HoldsFileOf(p)

----------------------------------------------------------------------------
\* The tables the last rule can choose among.
UberLike == {t \in demo.available : LooksLikeUber(t)}

\* The table the priorities name, or one of the tables the last rule matches.
ByPriority(t) ==
    IF demo.preferred # <<>> /\ demo.preferred \in demo.available THEN t = demo.preferred
    ELSE IF T_ncr_ride_bookings \in demo.available THEN t = T_ncr_ride_bookings
    ELSE IF T_uber_rides \in demo.available THEN t = T_uber_rides
    ELSE IF UberLike # {} THEN t \in UberLike
    ELSE t = <<>>

\* C29 (as claimed): the table behind uber_bookings is chosen by priority
\* (DATA_TABLE if available, else ncr_ride_bookings, else uber_rides, else a
\* table whose name contains 'uber' or 'ride'); two runs over the same
\* tables and the same DATA_TABLE select the same table, also when several
\* tables match the last rule; when nothing matches the flask app creates no
\* view and the local demo fails with an error.
C29_TableChoiceIsDeterministic ==
    /\ \A k \in 1..Len(demo.runs) :
          LET r == demo.runs[k] IN
          /\ ByPriority(r.target_table)
          /\ r.view_of \in {<<>>, r.target_table}
          /\ r.target_table = <<>> =>
                /\ r.view_of = <<>>
                /\ r.error = IF r.app = "local" THEN "ValueError" ELSE "none"
    /\ \A j, k \in 1..Len(demo.runs) : demo.runs[j].target_table = demo.runs[k].target_table

====
